---- MODULE Spec2Model ----
(***************************************************************************)
(* Build pipeline and native-handle ownership of the remote vector index  *)
(* builder.  One behaviour is one call of one entry point:                 *)
(*   "builder" : FaissIndexBuilder.build_gpu_index                         *)
(*   "service" : FaissIndexBuildService.build_index                        *)
(*   "tasks"   : core.tasks.run_tasks                                      *)
(*   "upload"  : core.tasks.upload_index, called on its own                *)
(*   "clients" : S3ObjectStore.__init__ in several concurrent runs         *)
(*   "blob"    : S3ObjectStore.read_blob / write_blob, debug off and on    *)
(*   "config"  : the functions that assemble index configurations          *)
(*   "poll"    : RemoteVectorAPIClient.wait_for_job_completion             *)
(*                                                                         *)
(* Native structures are "gpu" (GpuIndexCagra), "idmap" (IndexIDMap) and   *)
(* "cpu" (IndexHNSWCagra).  Each is reached from Python through a SWIG     *)
(* proxy: the proxy is finalized when nothing refers to it any more and    *)
(* then deletes the native structure iff its thisown flag is set; the      *)
(* destructor of the id map deletes the index it wraps iff own_fields is   *)
(* set; assigning a proxy to the id map's `index` member makes the proxy   *)
(* give up ownership (thisown becomes false).                              *)
(***************************************************************************)
EXTENDS Integers, Sequences, FiniteSets, TLC

VARIABLES entry, pc, heap, exc, stage, run, boto, s3, conf, poll, runs, xfer

vars == <<entry, pc, heap, exc, stage, run, boto, s3, conf, poll, runs, xfer>>

Entries ==
    {"builder", "service", "tasks", "upload", "clients", "blob", "config", "poll", "pair",
     "transfers"}

Structs == {"gpu", "idmap", "cpu"}

\* number of explicit, repeated release calls a behaviour may make
MaxDels == 2

(***************************************************************************)
(* Exceptions: kind and message.  A message is the sequence of its parts,  *)
(* so that the empty message, str(Exception()) = "", is a value and        *)
(* wrapping (f"prefix: {str(e)}") is concatenation.                        *)
(***************************************************************************)
NoExc == [kind |-> "none", msg |-> <<>>]

\* what the native libraries and transports may raise: an exception
\* without arguments (empty message) or one with a message
RawMsgs == {<<>>, <<"m">>}

Raise(kind, msg) == [kind |-> kind, msg |-> msg]

\* str(e): the message of the exception
str(e) == e.msg

\* raise Exception(f"<prefix>{str(e)}") from e
Wrap(prefix, e) == [kind |-> "Exception", msg |-> <<prefix>> \o str(e)]

\* an optional value: None, or Some(v)
None == [some |-> FALSE, val |-> <<>>]

Some(v) == [some |-> TRUE, val |-> v]

\* an optional value that is present and not the empty string
NonEmpty(o) == o.some /\ Len(o.val) > 0

(***************************************************************************)
(* The heap of one call.                                                   *)
(***************************************************************************)
NoResponse == [state |-> "none", index |-> "unset", index_id_map |-> "unset", dels |-> 0]

EmptyHeap ==
    [native |-> [x \in Structs |-> "none"],
     frees |-> [x \in Structs |-> 0],
     proxy |-> [x \in Structs |-> FALSE],
     thisown |-> [x \in Structs |-> FALSE],
     own_fields |-> FALSE,
     cpu_own_fields |-> FALSE,
     index |-> "none",
     locals |-> {},
     gpu_resp |-> NoResponse,
     cpu_resp |-> NoResponse,
     printed |-> 0]

\* x is referred to by a local variable of an active frame or by a field of
\* a response object
Referenced(h, x) ==
    \/ x \in h.locals
    \/ x = "gpu" /\ h.gpu_resp.index = "ref"
    \/ x = "idmap" /\ h.gpu_resp.index_id_map = "ref"
    \/ x = "idmap" /\ h.cpu_resp.index_id_map = "ref"
    \/ x = "cpu" /\ h.cpu_resp.index = "ref"

\* the handles (responses) and frames that hold x
Owners(h, x) ==
    (IF x \in h.locals THEN {"frame"} ELSE {})
    \cup (IF x = "gpu" /\ h.gpu_resp.index = "ref" THEN {"gpu_resp"} ELSE {})
    \cup (IF x = "idmap" /\ h.gpu_resp.index_id_map = "ref" THEN {"gpu_resp"} ELSE {})
    \cup (IF x = "idmap" /\ h.cpu_resp.index_id_map = "ref" THEN {"cpu_resp"} ELSE {})
    \cup (IF x = "cpu" /\ h.cpu_resp.index = "ref" THEN {"cpu_resp"} ELSE {})

\* operator delete on the native structure
NativeDelete(h, x) ==
    [h EXCEPT !.native[x] = "freed", !.frees[x] = @ + 1]

\* the C++ destructor: ~IndexIDMap deletes the wrapped index iff own_fields
Destroy(h, x) ==
    IF x = "idmap" /\ h.own_fields /\ h.index # "none"
    THEN NativeDelete(NativeDelete(h, "idmap"), h.index)
    ELSE NativeDelete(h, x)

\* the proxy of x is finalized: the native structure goes iff thisown
Finalize(h, x) ==
    LET g == IF h.thisown[x] THEN Destroy(h, x) ELSE h
    IN [g EXCEPT !.proxy[x] = FALSE]

CollectOne(h, x) ==
    IF h.proxy[x] /\ ~Referenced(h, x) THEN Finalize(h, x) ELSE h

\* reference counting: every proxy nothing refers to is finalized
Collect(h) == CollectOne(CollectOne(CollectOne(h, "gpu"), "idmap"), "cpu")

\* a constructor call bound to a local variable: faiss.GpuIndexCagra(...),
\* faiss.IndexIDMap(...), faiss.IndexHNSWCagra()
New(h, x) ==
    [h EXCEPT !.native[x] = "live", !.proxy[x] = TRUE, !.thisown[x] = TRUE,
              !.locals = @ \cup {x}]

\* del <local>, or the frame that holds the local ends
DelLocal(h, x) == Collect([h EXCEPT !.locals = @ \ {x}])

DropLocals(h) == Collect([h EXCEPT !.locals = {}])

\* id_map.index = <proxy of x>: the SWIG setter of a pointer member takes
\* the ownership away from the proxy
SetIndex(h, x) ==
    [h EXCEPT !.index = x, !.thisown[x] = FALSE]

(***************************************************************************)
(* Release of the response objects.                                        *)
(***************************************************************************)
\* a release that keeps its attributes, so that every call frees again
CreateGPUIndexResponse_del_keeps_fields(h) ==
    LET h1 == IF h.gpu_resp.index = "ref"
              THEN Destroy([h EXCEPT !.thisown["gpu"] = TRUE], "gpu")
              ELSE h
        h2 == IF h1.gpu_resp.index_id_map = "ref"
              THEN Destroy([h1 EXCEPT !.own_fields = TRUE], "idmap")
              ELSE h1
    IN [h2 EXCEPT !.gpu_resp.dels = @ + 1]

\* CreateGPUIndexResponse.__del__: a deleted attribute raises AttributeError,
\* which the except clause prints; nothing after it in the try body runs
CreateGPUIndexResponse_del(h) ==
    LET missing1 == h.gpu_resp.index \in {"deleted", "unset"}
        h1 == IF h.gpu_resp.index = "ref"
              THEN Collect([h EXCEPT !.thisown["gpu"] = TRUE,
                                     !.gpu_resp.index = "deleted"])
              ELSE h
        missing2 == h1.gpu_resp.index_id_map \in {"deleted", "unset"}
        h2 == IF h1.gpu_resp.index_id_map = "ref"
              THEN Collect([h1 EXCEPT !.own_fields = TRUE,
                                      !.gpu_resp.index_id_map = "deleted"])
              ELSE h1
        out == IF missing1 THEN [h EXCEPT !.printed = @ + 1]
               ELSE IF missing2 THEN [h1 EXCEPT !.printed = @ + 1]
               ELSE h2
    IN [out EXCEPT !.gpu_resp.dels = @ + 1]

\* the last reference to the GPU response goes: __del__ runs, then the
\* instance dictionary is dropped
FinalizeGpuResponse(h) ==
    IF h.gpu_resp.state # "live" THEN h
    ELSE LET d == CreateGPUIndexResponse_del(h)
         IN Collect([d EXCEPT !.gpu_resp.state = "dead",
                              !.gpu_resp.index = "deleted",
                              !.gpu_resp.index_id_map = "deleted"])

\* FaissCPUIndexResponse.__del__
FaissCPUIndexResponse_del(h) ==
    LET missing == h.cpu_resp.index \in {"deleted", "unset"}
        h1 == IF h.cpu_resp.index = "ref"
              THEN Collect([h EXCEPT !.cpu_own_fields = TRUE,
                                     !.cpu_resp.index = "deleted"])
              ELSE h
        out == IF missing THEN [h EXCEPT !.printed = @ + 1] ELSE h1
    IN [out EXCEPT !.cpu_resp.dels = @ + 1]

FinalizeCpuResponse(h) ==
    IF h.cpu_resp.state # "live" THEN h
    ELSE LET d == FaissCPUIndexResponse_del(h)
         IN Collect([d EXCEPT !.cpu_resp.state = "dead",
                              !.cpu_resp.index = "deleted",
                              !.cpu_resp.index_id_map = "deleted"])

\* CreateGPUIndexResponse(gpu_index_cagra=..., id_map_index=...)
NewGpuResponse(h) ==
    [h EXCEPT !.gpu_resp = [state |-> "live", index |-> "ref",
                            index_id_map |-> "ref", dels |-> 0]]

\* FaissCPUIndexResponse(cpu_index=..., index_id_map=...)
NewCpuResponse(h) ==
    [h EXCEPT !.cpu_resp = [state |-> "live", index |-> "ref",
                            index_id_map |-> "ref", dels |-> 0]]

(***************************************************************************)
(* Stages of a call, for the ordering properties.                          *)
(***************************************************************************)
Stages == <<"fetch", "build", "convert", "persist", "upload">>

StageSet == {Stages[i] : i \in 1..Len(Stages)}

NoStages == [active |-> "none",
             started |-> [s \in StageSet |-> 0],
             succeeded |-> [s \in StageSet |-> 0],
             failed |-> [s \in StageSet |-> 0],
             error |-> None]

StartStage(st, s) == [st EXCEPT !.active = s, !.started[s] = @ + 1]

EndStage(st, s) == [st EXCEPT !.active = "none", !.succeeded[s] = @ + 1]

FailStage(st, s) == [st EXCEPT !.active = "none", !.failed[s] = @ + 1]

(***************************************************************************)
(* FaissIndexBuilder.build_gpu_index                                       *)
(***************************************************************************)
\* lines 198-231: thread count, GPUIndexBuildConfig and faiss config
FaissIndexBuilder_create_config ==
    /\ entry = "builder" /\ pc = "start"
    /\ \/ /\ pc' = "b_create_gpu"
          /\ exc' = exc
       \/ \E m \in RawMsgs, p \in {"Failed to create GPU index build config: ",
                                   "Failed to create Faiss GPU index config: "} :
            /\ exc' = Wrap(p, Raise("Exception", m))
            /\ pc' = "b_finally"
    /\ UNCHANGED <<runs, xfer, s3, conf, poll, boto, entry, heap, stage, run>>

\* a GPU build that failed at `at` and whose except clause deletes nothing,
\* the frame still holding what was created
GpuBuildFailure_keeps_locals(h, at) ==
    LET h1 == IF at \in {"id_map", "add"} THEN New(h, "gpu") ELSE h
    IN IF at = "add" THEN [New(h1, "idmap") EXCEPT !.index = "gpu"] ELSE h1

\* what is left of the locals of a GPU build that failed at `at`
GpuBuildFailure(h, at) ==
    LET h1 == IF at \in {"id_map", "add"} THEN New(h, "gpu") ELSE h
        h2 == IF at = "add" THEN [New(h1, "idmap") EXCEPT !.index = "gpu"] ELSE h1
    IN \* except: del faiss_gpu_index; del faiss_id_map_index
       DelLocal(DelLocal(h2, "gpu"), "idmap")

\* the GPU index and the id map around it, handed over in a response
GpuBuildSuccess(h) ==
    LET h1 == [New(New(h, "gpu"), "idmap") EXCEPT !.index = "gpu"]
    IN DropLocals(NewGpuResponse(h1))

GpuBuildFailPoints == {"metric", "id_map", "add"}

\* FaissIndexBuilder._create_gpu_index and its call, lines 68-95, 234-242
FaissIndexBuilder_create_gpu_index ==
    /\ entry = "builder" /\ pc = "b_create_gpu"
    /\ \/ /\ heap' = GpuBuildSuccess(heap)
          /\ stage' = EndStage(StartStage(stage, "build"), "build")
          /\ pc' = "b_new_cpu"
          /\ exc' = exc
       \/ \E at \in GpuBuildFailPoints, m \in RawMsgs :
            /\ heap' = GpuBuildFailure(heap, at)
            /\ stage' = FailStage(StartStage(stage, "build"), "build")
            /\ exc' = Wrap("Failed to create GPU index: ",
                           Wrap("Failed to create GPU index: ", Raise("Exception", m)))
            /\ pc' = "b_finally"
    /\ UNCHANGED <<runs, xfer, s3, conf, poll, boto, entry, run>>

\* _create_and_write_cpu_index_to_file, lines 111-120: cpuIndex = IndexHNSWCagra()
FaissIndexBuilder_new_cpu_index ==
    /\ entry = "builder" /\ pc = "b_new_cpu"
    /\ stage' = StartStage(stage, "convert")
    /\ \/ /\ heap' = New(heap, "cpu")
          /\ pc' = "b_copy"
          /\ exc' = exc
       \/ \E m \in RawMsgs :
            /\ heap' = heap
            /\ exc' = Wrap("Failed to create and write CPU index: ", Raise("Exception", m))
            /\ pc' = "b_conv_finally"
    /\ UNCHANGED <<runs, xfer, s3, conf, poll, boto, entry, run>>

\* line 123: gpu_index_cagra.copyTo(cpuIndex)
FaissIndexBuilder_copyTo ==
    /\ entry = "builder" /\ pc = "b_copy"
    /\ \/ /\ pc' = "b_set_index"
          /\ exc' = exc
       \/ \E m \in RawMsgs :
            /\ exc' = Wrap("Failed to create and write CPU index: ", Raise("Exception", m))
            /\ pc' = "b_conv_finally"
    /\ UNCHANGED <<runs, xfer, s3, conf, poll, boto, entry, heap, stage, run>>

\* line 126: id_map_index.index = cpuIndex
FaissIndexBuilder_set_index ==
    /\ entry = "builder" /\ pc = "b_set_index"
    /\ heap' = SetIndex(heap, "cpu")
    /\ stage' = EndStage(stage, "convert")
    /\ pc' = "b_write"
    /\ UNCHANGED <<runs, xfer, s3, conf, poll, boto, entry, exc, run>>

\* lines 130-143: faiss.write_index(id_map_index, path)
FaissIndexBuilder_write_index ==
    /\ entry = "builder" /\ pc = "b_write"
    /\ \/ /\ stage' = EndStage(StartStage(stage, "persist"), "persist")
          /\ exc' = exc
       \/ \E m \in RawMsgs, p \in {"Failed to write index to file: ",
                                   "Unexpected error while writing index to file: "} :
            /\ stage' = FailStage(StartStage(stage, "persist"), "persist")
            /\ exc' = Wrap("Failed to create and write CPU index: ",
                           Wrap(p, Raise("Exception", m)))
    /\ pc' = "b_conv_finally"
    /\ UNCHANGED <<runs, xfer, s3, conf, poll, boto, entry, heap, run>>

\* lines 144-147 and 251-254: finally: del cpuIndex; the caller wraps
FaissIndexBuilder_create_and_write_finally ==
    /\ entry = "builder" /\ pc = "b_conv_finally"
    /\ heap' = DelLocal(heap, "cpu")
    /\ stage' = IF stage.active = "none" THEN stage ELSE FailStage(stage, stage.active)
    /\ exc' = IF exc = NoExc THEN exc
              ELSE Wrap("Failed to create and write CPU index: ", exc)
    /\ pc' = "b_finally"
    /\ UNCHANGED <<runs, xfer, s3, conf, poll, boto, entry, run>>

\* lines 255-263: except: wrap; finally: del create_gpu_index_response
FaissIndexBuilder_build_gpu_index_finally ==
    /\ entry = "builder" /\ pc = "b_finally"
    /\ heap' = FinalizeGpuResponse(heap)
    /\ exc' = IF exc = NoExc THEN exc ELSE Wrap("Failed to build GPU index: ", exc)
    /\ pc' = "done"
    /\ UNCHANGED <<runs, xfer, s3, conf, poll, boto, entry, stage, run>>


(***************************************************************************)
(* FaissIndexBuildService.build_index                                      *)
(***************************************************************************)
\* FaissGPUIndexResponse.__del__: the response class of the service, with
\* the fields of CreateGPUIndexResponse and the same release
FaissGPUIndexResponse_finalize(h) == FinalizeGpuResponse(h)

\* lines 201-215: thread count and GPUIndexCagraConfig.from_dict
FaissIndexBuildService_gpu_config ==
    /\ entry = "service" /\ pc = "start"
    /\ \/ /\ pc' = "s_build_gpu"
          /\ exc' = exc
       \/ \E m \in RawMsgs :
            /\ exc' = Wrap("Faiss Orchestrater build_index workflow failed. Reason: ",
                           Raise("Exception", m))
            /\ pc' = "s_finally"
    /\ UNCHANGED <<runs, xfer, s3, conf, poll, boto, entry, heap, stage, run>>

\* build_gpu_index, lines 69-105, and its call, lines 218-223
FaissIndexBuildService_build_gpu_index ==
    /\ entry = "service" /\ pc = "s_build_gpu"
    /\ \/ /\ heap' = GpuBuildSuccess(heap)
          /\ stage' = EndStage(StartStage(stage, "build"), "build")
          /\ pc' = "s_cpu_config"
          /\ exc' = exc
       \/ \E at \in GpuBuildFailPoints \cup {"to_faiss_config"}, m \in RawMsgs :
            /\ heap' = GpuBuildFailure(heap, at)
            /\ stage' = FailStage(StartStage(stage, "build"), "build")
            /\ exc' = Wrap("Faiss Orchestrater build_index workflow failed. Reason: ",
                        Wrap(IF at = "to_faiss_config"
                             THEN "Failed to create faiss GPU index config: "
                             ELSE "Failed to create faiss GPU index: ",
                             Raise("Exception", m)))
            /\ pc' = "s_finally"
    /\ UNCHANGED <<runs, xfer, s3, conf, poll, boto, entry, run>>

\* lines 227-231: IndexHNSWCagraConfig.from_dict
FaissIndexBuildService_cpu_config ==
    /\ entry = "service" /\ pc = "s_cpu_config"
    /\ \/ /\ pc' = "s_new_cpu"
          /\ exc' = exc
       \/ \E m \in RawMsgs :
            /\ exc' = Wrap("Faiss Orchestrater build_index workflow failed. Reason: ",
                           Raise("Exception", m))
            /\ pc' = "s_finally"
    /\ UNCHANGED <<runs, xfer, s3, conf, poll, boto, entry, heap, stage, run>>

\* the exception of a conversion step as build_index's except clause has it
\* (lines 145-148 and 241-244)
ConvertFailure(m) ==
    Wrap("Faiss Orchestrater build_index workflow failed. Reason: ",
         Wrap("Failed to convert GPU index to CPU index: ", Raise("Exception", m)))

\* convert_gpu_to_cpu_index, lines 124-134: cpuIndex = faiss.IndexHNSWCagra()
FaissIndexBuildService_new_cpu_index ==
    /\ entry = "service" /\ pc = "s_new_cpu"
    /\ \/ /\ heap' = New(heap, "cpu")
          /\ stage' = StartStage(stage, "convert")
          /\ pc' = "s_copy"
          /\ exc' = exc
       \/ \E m \in RawMsgs :
            /\ heap' = heap
            /\ stage' = FailStage(StartStage(stage, "convert"), "convert")
            /\ exc' = ConvertFailure(m)
            /\ pc' = "s_finally"
    /\ UNCHANGED <<runs, xfer, s3, conf, poll, boto, entry, run>>

\* line 137: gpu_index_cagra.copyTo(cpuIndex); on failure the frame and its
\* local cpuIndex go
FaissIndexBuildService_copyTo ==
    /\ entry = "service" /\ pc = "s_copy"
    /\ \/ /\ heap' = heap
          /\ stage' = stage
          /\ pc' = "s_set_index"
          /\ exc' = exc
       \/ \E m \in RawMsgs :
            /\ heap' = DropLocals(heap)
            /\ stage' = FailStage(stage, "convert")
            /\ exc' = ConvertFailure(m)
            /\ pc' = "s_finally"
    /\ UNCHANGED <<runs, xfer, s3, conf, poll, boto, entry, run>>

\* line 140: index_id_map.index = cpuIndex
FaissIndexBuildService_set_index ==
    /\ entry = "service" /\ pc = "s_set_index"
    /\ heap' = SetIndex(heap, "cpu")
    /\ pc' = "s_return_cpu"
    /\ UNCHANGED <<runs, xfer, s3, conf, poll, boto, entry, exc, stage, run>>

\* lines 142-144: return FaissCPUIndexResponse(cpu_index=cpuIndex,
\* index_id_map=gpu_index_response.index_id_map)
FaissIndexBuildService_convert_return ==
    /\ entry = "service" /\ pc = "s_return_cpu"
    /\ heap' = DropLocals(NewCpuResponse(heap))
    /\ stage' = EndStage(stage, "convert")
    /\ pc' = "s_write"
    /\ UNCHANGED <<runs, xfer, s3, conf, poll, boto, entry, exc, run>>

\* write_cpu_index, lines 162-177, and its call, line 239
FaissIndexBuildService_write_cpu_index ==
    /\ entry = "service" /\ pc = "s_write"
    /\ \/ /\ stage' = EndStage(StartStage(stage, "persist"), "persist")
          /\ exc' = exc
       \/ \E m \in RawMsgs, p \in {"Failed to write index to file: ",
                                   "Unexpected error while writing index to file: "} :
            /\ stage' = FailStage(StartStage(stage, "persist"), "persist")
            /\ exc' = Wrap("Faiss Orchestrater build_index workflow failed. Reason: ",
                           Wrap(p, Raise("Exception", m)))
    /\ pc' = "s_finally"
    /\ UNCHANGED <<runs, xfer, s3, conf, poll, boto, entry, heap, run>>

\* lines 245-256: del gpu_index_response; then cpu_index_response is read,
\* which is an UnboundLocalError when the conversion never returned
FaissIndexBuildService_build_index_finally ==
    /\ entry = "service" /\ pc = "s_finally"
    /\ LET h1 == FaissGPUIndexResponse_finalize(heap)
       IN IF heap.cpu_resp.state = "none"
          THEN /\ heap' = h1
               /\ exc' = Raise("UnboundLocalError", <<"cpu_index_response">>)
          ELSE /\ heap' = FinalizeCpuResponse(h1)
               /\ exc' = exc
    /\ pc' = "done"
    /\ UNCHANGED <<runs, xfer, s3, conf, poll, boto, entry, stage, run>>


(***************************************************************************)
(* core.tasks.run_tasks                                                    *)
(***************************************************************************)
\* TaskResult(file_name=None, error=None)
TaskResult(file_name, error) ==
    [returned |-> TRUE, file_name |-> file_name, error |-> error]

NoResult == [returned |-> FALSE, file_name |-> None, error |-> None]

(***************************************************************************)
(* Text.  A string is the sequence of its tokens: the characters "." and   *)
(* "/" and words that hold neither.                                        *)
(***************************************************************************)
\* longest vector path the upload entry point is called with, in tokens
MaxPathLen == 5

\* 1-based position of the last c in s, 0 when there is none (str.rfind + 1)
rfind(s, c) ==
    IF \E i \in 1..Len(s) : s[i] = c
    THEN CHOOSE i \in 1..Len(s) : s[i] = c /\ \A j \in (i + 1)..Len(s) : s[j] # c
    ELSE 0

\* str.split(sep)
RECURSIVE split(_, _)
split(s, sep) ==
    IF \A i \in 1..Len(s) : s[i] # sep THEN <<s>>
    ELSE LET i == CHOOSE k \in 1..Len(s) : s[k] = sep /\ \A j \in 1..(k - 1) : s[j] # sep
         IN <<SubSeq(s, 1, i - 1)>> \o split(SubSeq(s, i + 1, Len(s)), sep)

\* sep.join(parts)
RECURSIVE join(_, _)
join(sep, parts) ==
    IF Len(parts) = 0 THEN <<>>
    ELSE IF Len(parts) = 1 THEN parts[1]
    ELSE parts[1] \o <<sep>> \o join(sep, Tail(parts))

\* head.rstrip("/")
RECURSIVE rstrip(_)
rstrip(s) ==
    IF s # <<>> /\ s[Len(s)] = "/" THEN rstrip(SubSeq(s, 1, Len(s) - 1)) ELSE s

\* the path as it is
basename_full_path(path) == path

\* os.path.basename (posixpath): what follows the last "/"
basename(path) == SubSeq(path, rfind(path, "/") + 1, Len(path))

\* os.path.dirname (posixpath)
dirname(path) ==
    LET head == SubSeq(path, 1, rfind(path, "/"))
    IN IF head # <<>> /\ \E i \in 1..Len(head) : head[i] # "/"
       THEN rstrip(head) ELSE head

\* os.path.join(a, b) (posixpath): an absolute b discards a
os_path_join(a, b) ==
    IF b # <<>> /\ b[1] = "/" THEN b
    ELSE IF a = <<>> \/ a[Len(a)] = "/" THEN a \o b
    ELSE a \o <<"/">> \o b

\* a remote path cut at the first "." of the vector path
index_remote_path_first_dot(vector_path, engine) ==
    split(vector_path, ".")[1] \o <<".">> \o engine

\* upload_index, lines 372-376: ".".join(vector_path.split(".")[0:-1]) + "." + engine
index_remote_path(vector_path, engine) ==
    LET parts == split(vector_path, ".")
    IN join(".", SubSeq(parts, 1, Len(parts) - 1)) \o <<".">> \o engine

\* the directory tempfile.TemporaryDirectory() makes
TempDir == <<"/", "tmp", "/", "t">>

\* vector paths of the runs: a plain key, a key under a prefix, a key that
\* starts with "/" and a key that starts with ".."
VectorPaths ==
    {<<"v", ".", "knnvec">>,
     <<"a", "/", "v", ".", "knnvec">>,
     <<"/", "a", "/", "v", ".", "knnvec">>,
     <<".", ".", "/", "v", ".", "knnvec">>}

Engines == {<<"faiss">>, <<"x">>}

Modes == {"DISK", "MEMORY"}

DataTypes == {"FLOAT", "FLOAT16"}

RunInit(mode, data_type, repo_ok) ==
    [mode |-> mode, data_type |-> data_type, repo_ok |-> repo_ok,
     temp_dir |-> "none",
     storage |-> "none",
     index_file |-> "absent",
     vector_buffer |-> "none",
     doc_id_buffer |-> "none",
     conv_buffer |-> "none",
     received |-> {},
     dataset |-> "none",
     free_calls |-> 0,
     stores |-> 0,
     reads |-> <<>>,
     writes |-> 0,
     engines |-> 0,
     result |-> NoResult,
     vector_path |-> <<"v", ".", "knnvec">>,
     engine |-> <<"faiss">>,
     index_local_path |-> <<>>,
     directory |-> <<>>,
     config_arg |-> "None",
     object_store_config |-> "None",
     store_calls |-> 0,
     store_args |-> "none",
     transport_error |-> "none",
     write_target |-> None,
     remote_path |-> None,
     index_storage |-> "none",
     written_to |-> "none",
     write_data |-> "none",
     uploaded |-> "none"]

\* the pipeline stops here: the exception is the pending one of the try body
\* and st is the stage record with the message the stage raised
TaskFailure(st, e) ==
    /\ exc' = e
    /\ stage' = [st EXCEPT !.error = Some(str(e))]
    /\ pc' = "t_except"

\* line 108: tempfile.TemporaryDirectory(); an OSError of mkdtemp leaves
\* run_tasks, the with statement is outside the try
run_tasks_enter_temp_dir ==
    /\ entry = "tasks" /\ pc = "start"
    /\ \/ /\ run' = [run EXCEPT !.temp_dir = "exists"]
          /\ pc' = "t_storage"
          /\ exc' = exc
       \/ \E m \in RawMsgs :
            /\ run' = run
            /\ exc' = Raise("OSError", m)
            /\ pc' = "done"
    /\ UNCHANGED <<runs, xfer, s3, conf, poll, boto, entry, heap, stage>>

\* index_storage_context up to its yield, lines 388-405; an OSError of
\* os.makedirs leaves run_tasks after the temporary directory is removed
index_storage_context_enter ==
    /\ entry = "tasks" /\ pc = "t_storage"
    /\ \/ /\ run.mode = "MEMORY"
          /\ run' = [run EXCEPT !.storage = "buffer_open", !.index_storage = "index_buffer"]
          /\ pc' = "t_buffers"
          /\ exc' = exc
       \/ /\ run.mode = "DISK"
          /\ LET index_local_path == os_path_join(TempDir, run.vector_path)
             IN run' = [run EXCEPT !.storage = "path",
                                   !.index_storage = "index_local_path",
                                   !.index_local_path = index_local_path,
                                   !.directory = dirname(index_local_path)]
          /\ pc' = "t_buffers"
          /\ exc' = exc
       \/ /\ run.mode = "DISK"
          /\ \E m \in RawMsgs :
               /\ run' = [run EXCEPT !.temp_dir = "removed"]
               /\ exc' = Raise("OSError", m)
               /\ pc' = "done"
    /\ UNCHANGED <<runs, xfer, s3, conf, poll, boto, entry, heap, stage>>

\* a run that hands the absent config on as it is
run_tasks_buffers_keeps_none ==
    /\ entry = "tasks" /\ pc = "t_buffers"
    /\ run' = [run EXCEPT !.vector_buffer = "open", !.doc_id_buffer = "open"]
    /\ pc' = "t_store"
    /\ UNCHANGED <<runs, xfer, s3, conf, poll, boto, entry, heap, exc, stage>>

\* lines 115-120: an absent object_store_config becomes {}; the two staging
\* buffers
run_tasks_buffers ==
    /\ entry = "tasks" /\ pc = "t_buffers"
    /\ run' = [run EXCEPT !.object_store_config = IF @ = "None" THEN "empty_dict" ELSE @,
                          !.vector_buffer = "open", !.doc_id_buffer = "open"]
    /\ pc' = "t_store"
    /\ UNCHANGED <<runs, xfer, s3, conf, poll, boto, entry, heap, exc, stage>>

\* a factory that makes a store for every repository type
run_tasks_create_object_store_any_type ==
    /\ entry = "tasks" /\ pc = "t_store"
    /\ run' = [run EXCEPT !.stores = @ + 1,
                          !.store_calls = @ + 1,
                          !.store_args = run.object_store_config]
    /\ pc' = "t_fetch_vectors"
    /\ UNCHANGED <<runs, xfer, s3, conf, poll, boto, entry, heap, exc, stage>>

\* lines 126-128: ObjectStoreFactory.create_object_store
run_tasks_create_object_store ==
    /\ entry = "tasks" /\ pc = "t_store"
    /\ IF run.repo_ok
       THEN /\ run' = [run EXCEPT !.stores = @ + 1,
                                  !.store_calls = @ + 1,
                                  !.store_args = run.object_store_config]
            /\ pc' = "t_fetch_vectors"
            /\ exc' = exc
            /\ stage' = stage
       ELSE /\ run' = [run EXCEPT !.store_calls = @ + 1,
                                  !.store_args = run.object_store_config]
            /\ TaskFailure(stage, Raise("UnsupportedObjectStoreTypeError",
                                        <<"Unknown object store type">>))
    /\ UNCHANGED <<runs, xfer, s3, conf, poll, boto, entry, heap>>

\* _determine_streaming_buffer, lines 261-276: float16 data streams into a
\* converting buffer of its own
determine_streaming_buffer(r) ==
    IF r.data_type = "FLOAT16" THEN "conv_buffer" ELSE "vector_buffer"

\* what the transport (boto3 download_fileobj / upload_file) raises when a
\* transfer fails after its retries: a botocore ClientError, or an exception
\* of another class
TransportFailures ==
    {Raise(kind, m) : kind \in {"ClientError", "Exception"}, m \in RawMsgs}

\* S3ObjectStore.read_blob, lines 169-179: a ClientError becomes a BlobError
\* with a prefix, any other exception passes as it is
read_blob_raises(t) ==
    IF t.kind = "ClientError"
    THEN Raise("BlobError", <<"Error downloading file: ">> \o str(t))
    ELSE t

ReadFailures == {read_blob_raises(t) : t \in TransportFailures}

\* create_vectors_dataset, lines 325-328: the vector blob
create_vectors_dataset_read_vectors ==
    /\ entry = "tasks" /\ pc = "t_fetch_vectors"
    /\ LET b == determine_streaming_buffer(run)
           r1 == IF b = "conv_buffer" THEN [run EXCEPT !.conv_buffer = "open"] ELSE run
           r2 == [r1 EXCEPT !.reads = Append(@, "vector_path"),
                            !.received = @ \cup {b}]
       IN \/ /\ run' = r2
             /\ stage' = StartStage(stage, "fetch")
             /\ pc' = "t_fetch_doc_ids"
             /\ exc' = exc
          \/ \E t \in TransportFailures, got \in BOOLEAN :
               /\ run' = [r2 EXCEPT !.received = IF got THEN @ ELSE run.received,
                                    !.transport_error = t.kind]
               /\ TaskFailure(StartStage(stage, "fetch"), read_blob_raises(t))
    /\ UNCHANGED <<runs, xfer, s3, conf, poll, boto, entry, heap>>

\* line 329: the doc id blob
create_vectors_dataset_read_doc_ids ==
    /\ entry = "tasks" /\ pc = "t_fetch_doc_ids"
    /\ LET r2 == [run EXCEPT !.reads = Append(@, "doc_id_path"),
                             !.received = @ \cup {"doc_id_buffer"}]
       IN \/ /\ run' = r2
             /\ stage' = stage
             /\ pc' = "t_parse"
             /\ exc' = exc
          \/ \E t \in TransportFailures, got \in BOOLEAN :
               /\ run' = [r2 EXCEPT !.received = IF got THEN @ ELSE run.received,
                                    !.transport_error = t.kind]
               /\ TaskFailure(stage, read_blob_raises(t))
    /\ UNCHANGED <<runs, xfer, s3, conf, poll, boto, entry, heap>>

\* lines 331-337: VectorsDataset.parse
create_vectors_dataset_parse ==
    /\ entry = "tasks" /\ pc = "t_parse"
    /\ \/ /\ run' = [run EXCEPT !.dataset = "live"]
          /\ stage' = EndStage(stage, "fetch")
          /\ pc' = "t_build_gpu"
          /\ exc' = exc
       \/ \E m \in RawMsgs :
            /\ run' = run
            /\ TaskFailure(stage, Raise("VectorsDatasetError", m))
    /\ UNCHANGED <<runs, xfer, s3, conf, poll, boto, entry, heap>>


\* FaissGpuBuildIndexOutput.cleanup: releases what the handle still refers
\* to and clears its references, so that a second call finds nothing
FaissGpuBuildIndexOutput_cleanup(h) ==
    Collect([h EXCEPT !.gpu_resp.index = IF @ = "ref" THEN "None" ELSE @,
                      !.gpu_resp.index_id_map = IF @ = "ref" THEN "None" ELSE @,
                      !.gpu_resp.dels = @ + 1])

\* FaissCpuBuildIndexOutput.cleanup: the id map takes the CPU index with it
FaissCpuBuildIndexOutput_cleanup(h) ==
    LET owning == h.cpu_resp.index_id_map = "ref"
    IN Collect([h EXCEPT !.own_fields = IF owning THEN TRUE ELSE @,
                         !.cpu_resp.index = IF @ = "ref" THEN "None" ELSE @,
                         !.cpu_resp.index_id_map = IF @ = "ref" THEN "None" ELSE @,
                         !.cpu_resp.dels = @ + 1])

\* lines 151-158: FaissIndexBuildService() and, inside build_index, the GPU
\* index (build_gpu_index, faiss_index_build_service.py lines 69-105)
run_tasks_build_gpu_index ==
    /\ entry = "tasks" /\ pc = "t_build_gpu"
    /\ run' = [run EXCEPT !.engines = @ + 1]
    /\ \/ /\ heap' = GpuBuildSuccess(heap)
          /\ stage' = EndStage(StartStage(stage, "build"), "build")
          /\ pc' = "t_new_cpu"
          /\ exc' = exc
       \/ \E at \in GpuBuildFailPoints, m \in RawMsgs :
            /\ heap' = GpuBuildFailure(heap, at)
            /\ TaskFailure(StartStage(stage, "build"),
                           Wrap("Failed to create faiss GPU index: ", Raise("Exception", m)))
    /\ UNCHANGED <<runs, xfer, s3, conf, poll, boto, entry>>

\* a step of _do_convert_gpu_to_cpu_index raises: lines 91-94 wrap, the frame
\* and its locals go, and the caller has the error
DoConvertFailure(h, st, m) ==
    /\ heap' = DropLocals(h)
    /\ LET e == Wrap("Failed to convert GPU index to CPU index: ", Raise("Exception", m))
       IN /\ exc' = e
          /\ stage' = [st EXCEPT !.error = Some(str(e))]
    /\ pc' = "t_convert_failed"

\* FaissIndexHNSWCagraBuilder._do_convert_gpu_to_cpu_index, lines 63-69
do_convert_new_cpu_index ==
    /\ entry = "tasks" /\ pc = "t_new_cpu"
    /\ \/ /\ heap' = New(heap, "cpu")
          /\ stage' = StartStage(stage, "convert")
          /\ pc' = "t_copy"
          /\ exc' = exc
       \/ \E m \in RawMsgs : DoConvertFailure(heap, StartStage(stage, "convert"), m)
    /\ UNCHANGED <<runs, xfer, s3, conf, poll, boto, entry, run>>

\* line 72: gpu_index.copyTo(cpu_index)
do_convert_copyTo ==
    /\ entry = "tasks" /\ pc = "t_copy"
    /\ \/ /\ heap' = heap
          /\ pc' = "t_detach"
          /\ exc' = exc
          /\ stage' = stage
       \/ \E m \in RawMsgs : DoConvertFailure(heap, stage, m)
    /\ UNCHANGED <<runs, xfer, s3, conf, poll, boto, entry, run>>

\* lines 75-81: index_id_map.index = None; index_id_map = output.index_id_map;
\* output.index_id_map = None
do_convert_detach_id_map ==
    /\ entry = "tasks" /\ pc = "t_detach"
    /\ heap' = [heap EXCEPT !.index = "none",
                            !.locals = @ \cup {"idmap"},
                            !.gpu_resp.index_id_map = "None"]
    /\ pc' = "t_set_index"
    /\ UNCHANGED <<runs, xfer, s3, conf, poll, boto, entry, exc, stage, run>>

\* line 83: index_id_map.index = cpu_index
do_convert_set_index ==
    /\ entry = "tasks" /\ pc = "t_set_index"
    /\ \/ /\ heap' = SetIndex(heap, "cpu")
          /\ pc' = "t_cleanup"
          /\ exc' = exc
          /\ stage' = stage
       \/ \E m \in RawMsgs : DoConvertFailure(heap, stage, m)
    /\ UNCHANGED <<runs, xfer, s3, conf, poll, boto, entry, run>>

\* line 86: faiss_gpu_build_index_output.cleanup()
do_convert_cleanup ==
    /\ entry = "tasks" /\ pc = "t_cleanup"
    /\ \/ /\ heap' = FaissGpuBuildIndexOutput_cleanup(heap)
          /\ pc' = "t_convert_return"
          /\ exc' = exc
          /\ stage' = stage
       \/ \E m \in RawMsgs : DoConvertFailure(heap, stage, m)
    /\ UNCHANGED <<runs, xfer, s3, conf, poll, boto, entry, run>>

\* lines 88-90: return FaissCpuBuildIndexOutput(cpu_index, index_id_map)
do_convert_return ==
    /\ entry = "tasks" /\ pc = "t_convert_return"
    /\ heap' = DropLocals(NewCpuResponse(heap))
    /\ stage' = EndStage(stage, "convert")
    /\ pc' = "t_free"
    /\ UNCHANGED <<runs, xfer, s3, conf, poll, boto, entry, exc, run>>

\* build_index of the service as run_tasks calls it: a failed conversion
\* releases the GPU handle before the error goes on to run_tasks
build_index_convert_failed ==
    /\ entry = "tasks" /\ pc = "t_convert_failed"
    /\ heap' = FaissGpuBuildIndexOutput_cleanup(heap)
    /\ pc' = "t_except"
    /\ UNCHANGED <<runs, xfer, s3, conf, poll, boto, entry, exc, stage, run>>

\* VectorsDataset.free_vectors_space: drops the views; a second call finds
\* nothing to drop
free_vectors_space(r) ==
    [r EXCEPT !.dataset = IF @ = "live" THEN "freed" ELSE @,
              !.free_calls = @ + 1]

\* BytesIO.close()
close(state) == IF state = "none" THEN state ELSE "closed"

\* a run that goes from the freed dataset straight to the upload
run_tasks_free_vectors_then_upload ==
    /\ entry = "tasks" /\ pc = "t_free"
    /\ run' = [free_vectors_space(run) EXCEPT !.vector_buffer = close(@),
                                                !.doc_id_buffer = close(@)]
    /\ pc' = "t_upload"
    /\ UNCHANGED <<runs, xfer, s3, conf, poll, boto, entry, heap, exc, stage>>

\* a run that goes on to the write with the dataset and the buffers kept
run_tasks_free_vectors_keeps_dataset ==
    /\ entry = "tasks" /\ pc = "t_free"
    /\ run' = run
    /\ pc' = "t_write"
    /\ UNCHANGED <<runs, xfer, s3, conf, poll, boto, entry, heap, exc, stage>>

\* lines 160-167: free the dataset, close both buffers
run_tasks_free_vectors ==
    /\ entry = "tasks" /\ pc = "t_free"
    /\ run' = [free_vectors_space(run) EXCEPT !.vector_buffer = close(@),
                                                !.doc_id_buffer = close(@)]
    /\ pc' = "t_write"
    /\ UNCHANGED <<runs, xfer, s3, conf, poll, boto, entry, heap, exc, stage>>

\* lines 169-172: write_cpu_index into index_storage; the CPU handle is
\* released whether the write succeeded or not
run_tasks_write_cpu_index ==
    /\ entry = "tasks" /\ pc = "t_write"
    /\ heap' = FaissCpuBuildIndexOutput_cleanup(heap)
    /\ \/ /\ run' = [run EXCEPT !.index_file = IF run.mode = "DISK" THEN "present" ELSE @,
                                  !.written_to = run.index_storage]
          /\ stage' = EndStage(StartStage(stage, "persist"), "persist")
          /\ pc' = "t_upload"
          /\ exc' = exc
       \/ \E m \in RawMsgs, partial \in BOOLEAN :
            /\ run' = [run EXCEPT !.index_file =
                          IF run.mode = "DISK" /\ partial THEN "present" ELSE @]
            /\ TaskFailure(StartStage(stage, "persist"),
                           Wrap("Unexpected error while writing index to file: ",
                                Raise("Exception", m)))
    /\ UNCHANGED <<runs, xfer, s3, conf, poll, boto, entry>>

\* S3ObjectStore.write_blob, lines 215-225
write_blob_raises(t) ==
    IF t.kind = "ClientError"
    THEN Raise("BlobError", <<"Error uploading file: ">> \o str(t))
    ELSE t

WriteFailures == {write_blob_raises(t) : t \in TransportFailures}

\* the transport's upload_file(Filename, Bucket, Key, ...), called at lines
\* 216-222 with what write_blob was given: it takes the name of a file; given
\* an object that is no string, it raises ValueError and transfers nothing
upload_file(Filename) ==
    IF Filename = "index_buffer"
    THEN {Raise("ValueError", <<"Filename must be a string or a path-like object">>)}
    ELSE {NoExc} \cup TransportFailures

\* upload_index, lines 372-380, and its call, lines 184-199: the result
\* carries the base name of the remote path
run_tasks_upload_index ==
    /\ entry = "tasks" /\ pc = "t_upload"
    /\ \E t \in upload_file(run.index_storage) :
         IF t = NoExc
         THEN /\ LET remote_path == index_remote_path(run.vector_path, run.engine)
                 IN run' = [run EXCEPT !.writes = @ + 1,
                                       !.write_data = run.index_storage,
                                       !.uploaded = run.index_storage,
                                       !.write_target = Some(remote_path),
                                       !.remote_path = Some(remote_path),
                                       !.result = TaskResult(Some(basename(remote_path)), None)]
              /\ stage' = EndStage(StartStage(stage, "upload"), "upload")
              /\ pc' = "t_finally"
              /\ exc' = exc
         ELSE /\ run' = [run EXCEPT !.writes = @ + 1,
                                      !.write_data = run.index_storage,
                                      !.write_target =
                                          Some(index_remote_path(run.vector_path, run.engine)),
                                      !.transport_error = t.kind]
              /\ TaskFailure(StartStage(stage, "upload"), write_blob_raises(t))
    /\ UNCHANGED <<runs, xfer, s3, conf, poll, boto, entry, heap>>

\* an except clause that reports a fixed text in place of the message
run_tasks_except_fixed_text ==
    /\ entry = "tasks" /\ pc = "t_except"
    /\ run' = [run EXCEPT !.result = TaskResult(None, Some(<<"Index build failed">>))]
    /\ stage' = IF stage.active = "none" THEN stage ELSE FailStage(stage, stage.active)
    /\ exc' = NoExc
    /\ pc' = "t_finally"
    /\ UNCHANGED <<runs, xfer, s3, conf, poll, boto, entry, heap>>

\* lines 200-206: except Exception as e: return TaskResult(error=str(e))
run_tasks_except ==
    /\ entry = "tasks" /\ pc = "t_except"
    /\ run' = [run EXCEPT !.result = TaskResult(None, Some(str(exc)))]
    /\ stage' = IF stage.active = "none" THEN stage ELSE FailStage(stage, stage.active)
    /\ exc' = NoExc
    /\ pc' = "t_finally"
    /\ UNCHANGED <<runs, xfer, s3, conf, poll, boto, entry, heap>>

TryBody == {"t_store", "t_fetch_vectors", "t_fetch_doc_ids", "t_parse",
            "t_build_gpu", "t_free", "t_write", "t_upload"}

\* a cancellation signal (KeyboardInterrupt) between two stages: it is no
\* Exception, so only the finally clause and the with exits run
run_tasks_cancel ==
    /\ entry = "tasks" /\ pc \in TryBody
    /\ exc' = Raise("KeyboardInterrupt", <<>>)
    /\ pc' = "t_finally"
    /\ UNCHANGED <<runs, xfer, s3, conf, poll, boto, entry, heap, stage, run>>

\* a finally clause without the test `vectors_dataset is not None`
run_tasks_finally_frees_unconditionally ==
    /\ entry = "tasks" /\ pc = "t_finally"
    /\ run' = [free_vectors_space(run) EXCEPT !.vector_buffer = close(@),
                                                !.doc_id_buffer = close(@)]
    /\ pc' = "t_exit_storage"
    /\ UNCHANGED <<runs, xfer, s3, conf, poll, boto, entry, heap, exc, stage>>

\* lines 207-211: finally
run_tasks_finally ==
    /\ entry = "tasks" /\ pc = "t_finally"
    /\ LET r1 == IF run.dataset # "none" THEN free_vectors_space(run) ELSE run
       IN run' = [r1 EXCEPT !.vector_buffer = close(@), !.doc_id_buffer = close(@)]
    /\ pc' = "t_exit_storage"
    /\ UNCHANGED <<runs, xfer, s3, conf, poll, boto, entry, heap, exc, stage>>

\* a storage context that leaves its target as it is
index_storage_context_exit_leaves_target ==
    /\ entry = "tasks" /\ pc = "t_exit_storage"
    /\ run' = run
    /\ pc' = "t_exit_temp_dir"
    /\ UNCHANGED <<runs, xfer, s3, conf, poll, boto, entry, heap, exc, stage>>

\* a storage context that closes its buffer but leaves its file
index_storage_context_exit_keeps_file ==
    /\ entry = "tasks" /\ pc = "t_exit_storage"
    /\ run' = IF run.storage = "buffer_open"
              THEN [run EXCEPT !.storage = "buffer_closed"]
              ELSE [run EXCEPT !.storage = "path_left"]
    /\ pc' = "t_exit_temp_dir"
    /\ UNCHANGED <<runs, xfer, s3, conf, poll, boto, entry, heap, exc, stage>>

\* index_storage_context after its yield, lines 395-396 and 406-408
index_storage_context_exit ==
    /\ entry = "tasks" /\ pc = "t_exit_storage"
    /\ run' = IF run.storage = "buffer_open"
              THEN [run EXCEPT !.storage = "buffer_closed"]
              ELSE [run EXCEPT !.storage = "path_left", !.index_file = "absent"]
    /\ pc' = "t_exit_temp_dir"
    /\ UNCHANGED <<runs, xfer, s3, conf, poll, boto, entry, heap, exc, stage>>

\* TemporaryDirectory.__exit__, and run_tasks returns or lets the pending
\* exception go: its frame ends, and with it the local cpu_index
run_tasks_exit_temp_dir ==
    /\ entry = "tasks" /\ pc = "t_exit_temp_dir"
    /\ run' = [run EXCEPT !.temp_dir = "removed",
                          !.result = IF exc = NoExc THEN @ ELSE NoResult]
    /\ heap' = IF heap.cpu_resp.state = "live"
               THEN FaissCpuBuildIndexOutput_cleanup(heap) ELSE heap
    /\ pc' = "done"
    /\ UNCHANGED <<runs, xfer, s3, conf, poll, boto, entry, exc, stage>>

(***************************************************************************)
(* upload_index called on its own, as its callers outside run_tasks do.    *)
(***************************************************************************)
PathTokens == {".", "/", "a", "knnvec"}

\* every text of at most n tokens
Texts(n) == UNION {[1..k -> PathTokens] : k \in 0..n}

\* the vector paths the parameter validation lets through: they end in
\* ".knnvec"
KnnvecPaths == {t \o <<".", "knnvec">> : t \in Texts(MaxPathLen - 2)}

\* upload_index, lines 372-380
upload_index ==
    /\ entry = "upload" /\ pc = "start"
    /\ LET remote_path == index_remote_path(run.vector_path, run.engine)
       IN \E t \in upload_file(run.index_storage) :
            IF t = NoExc
            THEN /\ run' = [run EXCEPT !.writes = @ + 1,
                                        !.write_data = run.index_storage,
                                        !.uploaded = run.index_storage,
                                        !.write_target = Some(remote_path),
                                        !.remote_path = Some(remote_path)]
                 /\ exc' = exc
            ELSE /\ run' = [run EXCEPT !.writes = @ + 1,
                                        !.write_data = run.index_storage,
                                        !.write_target = Some(remote_path),
                                        !.transport_error = t.kind]
                 /\ exc' = write_blob_raises(t)
    /\ pc' = "done"
    /\ UNCHANGED <<runs, xfer, s3, conf, poll, boto, entry, heap, stage>>

(***************************************************************************)
(* S3ObjectStore.__init__ and the client cache, with several runs that     *)
(* construct their object store at the same time.                          *)
(***************************************************************************)
\* number of runs that construct an object store concurrently
NumThreads == 2

Threads == 1..NumThreads

\* object_store_config.get("retries", 3)
DefaultRetries == 3

\* object_store_config.get("region", "us-west-2")
DefaultRegion == "us-west-2"

\* the object store configs of the runs: a key that is absent is None here
S3Configs ==
    {[region |-> None, retries |-> None],
     [region |-> Some("us-east-1"), retries |-> None],
     [region |-> None, retries |-> Some(5)]}

\* dict.get(key, default)
get(o, default) == IF o.some THEN o.val ELSE default

\* the cache key of get_boto3_client(region=..., retries=...), lines 86-89
CacheKey(cfg) == <<get(cfg.region, DefaultRegion), get(cfg.retries, DefaultRetries)>>

CacheKeys == {CacheKey(cfg) : cfg \in S3Configs}

\* no client: the cache has no entry, the thread holds no result
NoClient == 0

BotoInit ==
    [cache |-> [k \in CacheKeys |-> NoClient],
     created |-> [k \in CacheKeys |-> 0],
     replaced |-> FALSE,
     clients |-> 0,
     th |-> [t \in Threads |-> [pc |-> "idle", key |-> <<>>, client |-> NoClient]]]

\* S3ObjectStore.__init__, lines 85-89, up to the call of get_boto3_client
S3ObjectStore_init(t) ==
    /\ entry = "clients"
    /\ boto.th[t].pc = "idle"
    /\ \E cfg \in S3Configs :
         boto' = [boto EXCEPT !.th[t].key = CacheKey(cfg), !.th[t].pc = "lookup"]
    /\ UNCHANGED <<runs, xfer, s3, conf, poll, entry, pc, heap, exc, stage, run>>

\* functools.cache, the lookup: a hit returns the stored client, a miss goes
\* on to call the function
cache_lookup(t) ==
    /\ entry = "clients"
    /\ boto.th[t].pc = "lookup"
    /\ LET hit == boto.cache[boto.th[t].key]
       IN boto' = IF hit # NoClient
                  THEN [boto EXCEPT !.th[t].client = hit, !.th[t].pc = "returned"]
                  ELSE [boto EXCEPT !.th[t].pc = "call"]
    /\ UNCHANGED <<runs, xfer, s3, conf, poll, entry, pc, heap, exc, stage, run>>

\* get_boto3_client, lines 37-38: boto3.client("s3", ...) makes a new client
get_boto3_client(t) ==
    /\ entry = "clients"
    /\ boto.th[t].pc = "call"
    /\ boto' = [boto EXCEPT !.clients = @ + 1,
                            !.created[boto.th[t].key] = @ + 1,
                            !.th[t].client = boto.clients + 1,
                            !.th[t].pc = "store"]
    /\ UNCHANGED <<runs, xfer, s3, conf, poll, entry, pc, heap, exc, stage, run>>

\* functools.cache, after the call: the result is stored under the key,
\* over whatever is there, and returned
cache_store(t) ==
    /\ entry = "clients"
    /\ boto.th[t].pc = "store"
    /\ boto' = [boto EXCEPT !.replaced = @ \/ boto.cache[boto.th[t].key] # NoClient,
                            !.cache[boto.th[t].key] = boto.th[t].client,
                            !.th[t].pc = "returned"]
    /\ UNCHANGED <<runs, xfer, s3, conf, poll, entry, pc, heap, exc, stage, run>>

(***************************************************************************)
(* S3ObjectStore.read_blob / write_blob with progress reporting.  One      *)
(* behaviour of the entry "blob" makes the same transfer on two stores     *)
(* that differ in the `debug` key of their object store config only; the   *)
(* transport behaves the same for both.                                    *)
(***************************************************************************)
BlobOps == {"read_blob", "write_blob"}

\* number of chunks the transport moves, and reports to its Callback, before
\* the transfer ends
MaxChunks == 2

\* how the transport ends a transfer: it returns, or raises
TransportOutcomes == {NoExc} \cup TransportFailures

NoCall == [fn |-> "none", Bucket |-> "none", Key |-> <<>>, target |-> "none",
           Config |-> "none", Callback |-> FALSE]

\* S3ObjectStore.__init__, lines 85-103: bucket, transfer config and debug flag;
\* the progress counters
S3ObjectStore(debug) ==
    [debug |-> debug, bucket |-> "container_name", transfer_config |-> "TransferConfig",
     read_progress |-> 0, write_progress |-> 0,
     pc |-> "idle", call |-> NoCall, chunks |-> 0, returned |-> FALSE, raised |-> NoExc]

\* the transfers of the entry "blob": operation, key, data target, and what
\* the transport will do
BlobInputs(e) ==
    IF e = "blob"
    THEN {[op |-> op, key |-> k,
           target |-> IF op = "read_blob" THEN "bytes_buffer" ELSE "index_local_path",
           chunks |-> n, outcome |-> t,
           obj |-> [d \in BOOLEAN |-> S3ObjectStore(d)]] :
              op \in BlobOps, k \in {<<"v", ".", "knnvec">>, <<"d", ".", "knndid">>},
              n \in 0..MaxChunks, t \in TransportOutcomes}
    ELSE {[op |-> "read_blob", key |-> <<>>, target |-> "none", chunks |-> 0, outcome |-> NoExc,
           obj |-> [d \in BOOLEAN |-> S3ObjectStore(d)]]}

\* read_blob, lines 155-176: debug resets the counter and makes a callback;
\* download_fileobj is called with bucket, key, buffer, Config and Callback
S3ObjectStore_read_blob(d) ==
    /\ entry = "blob" /\ s3.op = "read_blob"
    /\ s3.obj[d].pc = "idle"
    /\ LET o == s3.obj[d]
           o1 == IF o.debug THEN [o EXCEPT !.read_progress = 0] ELSE o
       IN s3' = [s3 EXCEPT !.obj[d] =
                    [o1 EXCEPT !.pc = "transfer",
                               !.call = [fn |-> "download_fileobj", Bucket |-> o.bucket,
                                         Key |-> s3.key, target |-> s3.target,
                                         Config |-> o.transfer_config,
                                         Callback |-> o.debug]]]
    /\ UNCHANGED <<runs, xfer, conf, poll, boto, entry, pc, heap, exc, stage, run>>

\* write_blob, lines 202-222: the same for upload_file
S3ObjectStore_write_blob(d) ==
    /\ entry = "blob" /\ s3.op = "write_blob"
    /\ s3.obj[d].pc = "idle"
    /\ LET o == s3.obj[d]
           o1 == IF o.debug THEN [o EXCEPT !.write_progress = 0] ELSE o
       IN s3' = [s3 EXCEPT !.obj[d] =
                    [o1 EXCEPT !.pc = "transfer",
                               !.call = [fn |-> "upload_file", Bucket |-> o.bucket,
                                         Key |-> s3.key, target |-> s3.target,
                                         Config |-> o.transfer_config,
                                         Callback |-> o.debug]]]
    /\ UNCHANGED <<runs, xfer, conf, poll, boto, entry, pc, heap, exc, stage, run>>

\* the callbacks of lines 162-165 and 208-211, called by the transport with
\* the size of a chunk: the counter of the operation grows by it
callback(o, bytes) ==
    IF o.call.fn = "download_fileobj"
    THEN [o EXCEPT !.read_progress = @ + bytes]
    ELSE [o EXCEPT !.write_progress = @ + bytes]

\* the transport moves one chunk and reports it to the Callback it was given
transport_chunk(d) ==
    /\ entry = "blob"
    /\ s3.obj[d].pc = "transfer"
    /\ s3.obj[d].chunks < s3.chunks
    /\ LET o == [s3.obj[d] EXCEPT !.chunks = @ + 1]
       IN s3' = [s3 EXCEPT !.obj[d] = IF o.call.Callback THEN callback(o, 1) ELSE o]
    /\ UNCHANGED <<runs, xfer, conf, poll, boto, entry, pc, heap, exc, stage, run>>

\* a variant in which a store in debug mode reports a failed transfer through
\* its log only
blob_end_debug_logs_failure(o, t) ==
    IF t = NoExc \/ o.debug
    THEN [o EXCEPT !.pc = "done", !.returned = TRUE]
    ELSE [o EXCEPT !.pc = "done",
                   !.raised = IF o.call.fn = "download_fileobj"
                              THEN read_blob_raises(t) ELSE write_blob_raises(t)]

\* lines 177-179 and 223-225: the call returns None when the transport
\* returns; a ClientError is raised as BlobError, another exception as it is
blob_end(o, t) ==
    IF t = NoExc
    THEN [o EXCEPT !.pc = "done", !.returned = TRUE]
    ELSE [o EXCEPT !.pc = "done",
                   !.raised = IF o.call.fn = "download_fileobj"
                              THEN read_blob_raises(t) ELSE write_blob_raises(t)]

\* the transport ends the transfer
S3ObjectStore_blob_end(d) ==
    /\ entry = "blob"
    /\ s3.obj[d].pc = "transfer"
    /\ s3.obj[d].chunks = s3.chunks
    /\ s3' = [s3 EXCEPT !.obj[d] = blob_end(s3.obj[d], s3.outcome)]
    /\ UNCHANGED <<runs, xfer, conf, poll, boto, entry, pc, heap, exc, stage, run>>

(***************************************************************************)
(* Configuration assembly.  A dictionary is a function from its keys to    *)
(* its values; a string, an enum member and None are pairs of class and    *)
(* value, so that  "IVF_PQ"  and  GraphBuildAlgo.IVF_PQ  differ.           *)
(* One behaviour of the entry "config" calls one assembling function on    *)
(* one dictionary object of the caller, up to MaxCalls times.              *)
(***************************************************************************)
EmptyDict == [k \in {} |-> 0]

\* None, where a dictionary is expected
PyNone == [NoneType |-> TRUE]

\* None, where a string or enum member is expected
NoneValue == <<"NoneType", "None">>

\* d.pop(k, None): the dictionary that is left
pop(d, k) == [f \in DOMAIN d \ {k} |-> d[f]]

\* d[k] = v
put(d, k, v) == [f \in DOMAIN d \cup {k} |-> IF f = k THEN v ELSE d[f]]

\* d.get(k, default)
dict_get(d, k, default) == IF k \in DOMAIN d THEN d[k] ELSE default

\* bool(d) of a dictionary or None
truthy(d) == d # PyNone /\ DOMAIN d # {}

restrict(d, keys) == [f \in keys |-> d[f]]

\* number of successive calls with the same dictionary object
MaxCalls == 2

\* cls(**kwargs) of a dataclass whose fields all have defaults
dataclass(cls, defaults, kwargs) ==
    IF DOMAIN kwargs \subseteq DOMAIN defaults
    THEN [raised |-> NoExc,
          config |-> [f \in DOMAIN defaults |->
                         IF f \in DOMAIN kwargs THEN kwargs[f] ELSE defaults[f]]]
    ELSE [raised |-> Raise("TypeError", <<cls, " got an unexpected keyword argument">>),
          config |-> EmptyDict]

\* the members of GraphBuildAlgo; the enum is not among the sources, these
\* are the members of CagraGraphBuildAlgo
GraphBuildAlgoValues == {"IVF_PQ", "NN_DESCENT"}

\* GraphBuildAlgo(v): the member with that value, or ValueError
GraphBuildAlgo(v) ==
    IF v[2] \in GraphBuildAlgoValues
    THEN [raised |-> NoExc, val |-> <<"GraphBuildAlgo", v[2]>>]
    ELSE [raised |-> Raise("ValueError", <<v[2], " is not a valid GraphBuildAlgo">>),
          val |-> NoneValue]

IVF_PQ == <<"GraphBuildAlgo", "IVF_PQ">>

\* SpaceType("l2")
l2 == <<"SpaceType", "l2">>

\* IVFPQBuildCagraConfig, ivf_pq_build_cagra_config.py lines 11-54;
\* kmeans_trainset_fraction 0.1 is the pair <<1, 10>>
IVFPQBuildCagraConfig ==
    [n_lists |-> 1000, kmeans_n_iters |-> 10, kmeans_trainset_fraction |-> <<1, 10>>,
     pq_bits |-> 8, pq_dim |-> 16, conservative_memory_allocation |-> TRUE]

\* the default of IVFPQSearchCagraConfig.n_probes; the class is not among
\* the sources
n_probes_default == 20

IVFPQSearchCagraConfig == [n_probes |-> n_probes_default]

\* core.common.models.index_builder.GPUIndexCagraConfig, the dataclass that
\* IndexConfigBuilder fills
GPUIndexCagraConfig ==
    [intermediate_graph_degree |-> 64, graph_degree |-> 32, graph_build_algo |-> IVF_PQ,
     store_dataset |-> FALSE, device |-> 0,
     ivf_pq_build_config |-> IVFPQBuildCagraConfig,
     ivf_pq_search_config |-> IVFPQSearchCagraConfig]

\* core.common.models.index_builder.IndexHNSWCagraConfig
IndexHNSWCagraConfig ==
    [ef_search |-> 256, ef_construction |-> 40, base_level_only |-> TRUE, own_fields |-> TRUE]

\* faiss.GPUIndexCagraConfig, the dataclass with from_dict, lines 25-42
FaissGPUIndexCagraConfig ==
    [intermediate_graph_degree |-> 128, graph_degree |-> 64, graph_build_algo |-> IVF_PQ,
     store_dataset |-> TRUE, device |-> 0,
     ivf_pq_build_config |-> IVFPQBuildCagraConfig,
     ivf_pq_search_config |-> IVFPQSearchCagraConfig]

\* faiss.IndexHNSWCagraConfig, the dataclass with from_dict, lines 18-28
FaissIndexHNSWCagraConfig ==
    [ef_search |-> 100, ef_construction |-> 100, base_level_only |-> TRUE]

\* from_dict of a class without nested configs and without validation:
\* IndexHNSWCagraConfig.from_dict, lines 30-44
from_dict(cls, defaults, params) ==
    IF ~truthy(params)
    THEN [raised |-> NoExc, config |-> defaults, params |-> params]
    ELSE [raised |-> dataclass(cls, defaults, params).raised,
          config |-> dataclass(cls, defaults, params).config,
          params |-> params]

IndexHNSWCagraConfig_from_dict(params) ==
    from_dict("IndexHNSWCagraConfig", FaissIndexHNSWCagraConfig, params)

\* GPUIndexCagraConfig._validate_params, lines 58-84
validate_params(params) ==
    IF "intermediate_graph_degree" \in DOMAIN params /\ params.intermediate_graph_degree <= 0
    THEN Raise("ValueError", <<"GPUIndexCagraConfig param: ", "intermediate_graph_degree",
                               " must be positive">>)
    ELSE IF "graph_degree" \in DOMAIN params /\ params.graph_degree <= 0
    THEN Raise("ValueError", <<"GPUIndexCagraConfig param: ", "graph_degree",
                               " must be positive">>)
    ELSE IF "device" \in DOMAIN params /\ params.device < 0
    THEN Raise("ValueError", <<"GPUIndexCagraConfig param: ", "device",
                               " must be non-negative">>)
    ELSE NoExc

Failed(e, params) == [raised |-> e, config |-> EmptyDict, params |-> params]

\* GPUIndexCagraConfig.from_dict, lines 121-155.  `params` is the caller's
\* dictionary: the record that is returned holds what is left in it.
GPUIndexCagraConfig_from_dict(params) ==
    IF ~truthy(params)
    THEN [raised |-> NoExc, config |-> FaissGPUIndexCagraConfig, params |-> params]
    ELSE LET build == from_dict("IVFPQBuildCagraConfig", IVFPQBuildCagraConfig,
                                dict_get(params, "ivf_pq_build_params", PyNone))
             p1 == pop(params, "ivf_pq_build_params")
             search == from_dict("IVFPQSearchCagraConfig", IVFPQSearchCagraConfig,
                                 dict_get(p1, "ivf_pq_search_params", PyNone))
             p2 == pop(p1, "ivf_pq_search_params")
             algo == IF "graph_build_algo" \in DOMAIN p2
                     THEN GraphBuildAlgo(p2.graph_build_algo)
                     ELSE [raised |-> NoExc, val |-> NoneValue]
             p3 == IF "graph_build_algo" \in DOMAIN p2 /\ algo.raised = NoExc
                   THEN put(p2, "graph_build_algo", algo.val)
                   ELSE p2
             made == dataclass("GPUIndexCagraConfig", FaissGPUIndexCagraConfig,
                               put(put(p3, "ivf_pq_build_config", build.config),
                                   "ivf_pq_search_config", search.config))
         IN IF build.raised # NoExc THEN Failed(build.raised, p1)
            ELSE IF search.raised # NoExc THEN Failed(search.raised, p2)
            ELSE IF algo.raised # NoExc THEN Failed(algo.raised, p2)
            ELSE IF validate_params(p3) # NoExc THEN Failed(validate_params(p3), p3)
            ELSE [raised |-> made.raised, config |-> made.config, params |-> p3]

\* IndexConfigBuilder.set_hnsw_config, lines 39-42
set_hnsw_config(params) ==
    IF truthy(params)
    THEN [raised |-> dataclass("IndexHNSWCagraConfig", IndexHNSWCagraConfig, params).raised,
          config |-> dataclass("IndexHNSWCagraConfig", IndexHNSWCagraConfig, params).config,
          params |-> params]
    ELSE [raised |-> NoExc, config |-> IndexHNSWCagraConfig, params |-> params]

\* the enum member of lines 78-83: a value that is false in a condition,
\* None or the empty string, gives IVF_PQ
graph_build_algo_of(p) ==
    IF p # NoneValue /\ p[2] # ""
    THEN GraphBuildAlgo(p)
    ELSE [raised |-> NoExc, val |-> IVF_PQ]

\* IndexConfigBuilder.set_gpu_config, lines 57-92: the builder's _gpu_config
\* and what is left in the caller's dictionary
set_gpu_config(params) ==
    IF ~truthy(params)
    THEN [raised |-> NoExc, config |-> GPUIndexCagraConfig, params |-> params]
    ELSE LET bp == dict_get(params, "ivf_pq_build_params", PyNone)
             p1 == pop(params, "ivf_pq_build_params")
             build == IF truthy(bp)
                      THEN dataclass("IVFPQBuildCagraConfig", IVFPQBuildCagraConfig, bp)
                      ELSE [raised |-> NoExc, config |-> IVFPQBuildCagraConfig]
             sp == dict_get(p1, "ivf_pq_search_params", PyNone)
             p2 == pop(p1, "ivf_pq_search_params")
             search == IF truthy(sp)
                       THEN dataclass("IVFPQSearchCagraConfig", IVFPQSearchCagraConfig, sp)
                       ELSE [raised |-> NoExc, config |-> IVFPQSearchCagraConfig]
             algo == graph_build_algo_of(dict_get(p2, "graph_build_algo", NoneValue))
             p3 == pop(p2, "graph_build_algo")
             made == dataclass("GPUIndexCagraConfig", GPUIndexCagraConfig,
                               put(put(put(p3, "graph_build_algo", algo.val),
                                       "ivf_pq_build_config", build.config),
                                   "ivf_pq_search_config", search.config))
         IN IF build.raised # NoExc THEN Failed(build.raised, p1)
            ELSE IF search.raised # NoExc THEN Failed(search.raised, p2)
            ELSE IF algo.raised # NoExc THEN Failed(algo.raised, p3)
            ELSE [raised |-> made.raised, config |-> made.config, params |-> p3]

\* IndexConfigBuilder.build, lines 115-124
build(hnsw_config, gpu_config, metric) ==
    [index_hnsw_cagra_config |-> hnsw_config, gpu_index_cagra_config |-> gpu_config,
     metric |-> metric]

\* IndexConfigDirector.construct_config, lines 34-39, on a new builder.  The
\* dictionary under "gpu_config" is the one set_gpu_config works on.
construct_config(config_params) ==
    LET hnsw == set_hnsw_config(dict_get(config_params, "hnsw_config", EmptyDict))
        gpu == set_gpu_config(dict_get(config_params, "gpu_config", EmptyDict))
        left == IF "gpu_config" \in DOMAIN config_params
                THEN put(config_params, "gpu_config", gpu.params)
                ELSE config_params
        metric == dict_get(config_params, "metric", NoneValue)
    IN IF hnsw.raised # NoExc THEN Failed(hnsw.raised, config_params)
       ELSE IF gpu.raised # NoExc THEN Failed(gpu.raised, left)
       ELSE [raised |-> NoExc, config |-> build(hnsw.config, gpu.config, metric),
             params |-> left]

\* the dictionaries of GPU overrides
GpuKeys == {"intermediate_graph_degree", "graph_degree", "device", "graph_build_algo",
            "ivf_pq_build_params", "ivf_pq_search_params"}

GpuDicts ==
    {restrict([intermediate_graph_degree |-> a, graph_degree |-> b, device |-> c,
               graph_build_algo |-> <<"str", g>>,
               ivf_pq_build_params |-> bp, ivf_pq_search_params |-> sp], ks) :
        a \in {0, 32}, b \in {0, 16}, c \in {-1, 1}, g \in {"IVF_PQ", "", "BRUTE"},
        bp \in {EmptyDict, [n_lists |-> 8]}, sp \in {EmptyDict, [n_probes |-> 2]},
        ks \in SUBSET GpuKeys}

\* the dictionaries of HNSW overrides
HnswDicts ==
    {restrict([ef_search |-> a, ef_construction |-> b, m |-> 16], ks) :
        a \in {0, 50}, b \in {-1, 50}, ks \in SUBSET {"ef_search", "ef_construction", "m"}}

\* the parameters of construct_config
ConfigParams ==
    {restrict([hnsw_config |-> h, gpu_config |-> g, metric |-> <<"str", m>>], ks) :
        h \in {EmptyDict, [ef_search |-> 50], [ef_construction |-> -1]},
        g \in {EmptyDict, [device |-> 1], [ivf_pq_build_params |-> [n_lists |-> 8]],
               [graph_build_algo |-> <<"str", "BRUTE">>, device |-> 1]},
        m \in {"l2", "innerproduct"},
        ks \in SUBSET {"hnsw_config", "gpu_config", "metric"}}

\* the largest number of CPUs os.cpu_count() reports
MaxCpus == 4

\* what os.cpu_count() returns: None, or a number from 1 upwards
CpuCounts == {None} \cup {Some(n) : n \in 1..MaxCpus}

\* S3ObjectStore.DEFAULT_TRANSFER_CONFIG, lines 56-67, evaluated when the
\* class is defined; a value is None or Some(v)
DEFAULT_TRANSFER_CONFIG(cpu_count) ==
    [multipart_chunksize |-> Some(10 * 1024 * 1024),
     max_concurrency |-> Some(get(cpu_count, 2) \div 2),
     multipart_threshold |-> Some(10 * 1024 * 1024),
     use_threads |-> Some(TRUE),
     max_bandwidth |-> None,
     io_chunksize |-> Some(256 * 1024),
     num_download_attempts |-> Some(5),
     max_io_queue |-> Some(100),
     preferred_transfer_client |-> Some("auto")]

\* a variant that takes every key of the custom config
create_transfer_config_takes_all(defaults, custom_config) ==
    LET config_params == [k \in DOMAIN defaults \cup DOMAIN custom_config |->
                             IF k \in DOMAIN custom_config THEN custom_config[k]
                             ELSE defaults[k]]
        kept == {k \in DOMAIN config_params : config_params[k].some}
    IN [kwargs |-> [k \in kept |-> config_params[k].val],
        logged |-> DOMAIN custom_config \ DOMAIN defaults]

\* S3ObjectStore._create_transfer_config, lines 116-130: the keyword
\* arguments TransferConfig is made from, and the keys that were logged
create_transfer_config(defaults, custom_config) ==
    LET config_params == [k \in DOMAIN defaults |->
                             IF k \in DOMAIN custom_config THEN custom_config[k]
                             ELSE defaults[k]]
        kept == {k \in DOMAIN config_params : config_params[k].some}
    IN [kwargs |-> [k \in kept |-> config_params[k].val],
        logged |-> DOMAIN custom_config \ DOMAIN defaults]

\* the custom transfer configs
TransferDicts ==
    {restrict([multipart_chunksize |-> a, max_concurrency |-> Some(8),
               max_bandwidth |-> b, invalid_param |-> Some("value")], ks) :
        a \in {None, Some(20 * 1024 * 1024)}, b \in {None, Some(1024)},
        ks \in SUBSET {"multipart_chunksize", "max_concurrency", "max_bandwidth",
                       "invalid_param"}}

ConfFns == {"GPUIndexCagraConfig.from_dict", "IndexHNSWCagraConfig.from_dict",
            "set_gpu_config", "construct_config", "build", "_create_transfer_config"}

\* the caller's dictionary `arg`, its contents `given` before the first call,
\* the results of the calls so far and the number of sub-config objects made
ConfInit(fn, d) ==
    [fn |-> fn, arg |-> d, given |-> d, results |-> <<>>, objects |-> 0,
     cpu_count |-> None, logged |-> {}]

ConfInputs(e) ==
    IF e = "config"
    THEN {ConfInit("GPUIndexCagraConfig.from_dict", d) : d \in GpuDicts \cup {PyNone}}
         \cup {ConfInit("set_gpu_config", d) : d \in GpuDicts \cup {PyNone}}
         \cup {ConfInit("IndexHNSWCagraConfig.from_dict", d) : d \in HnswDicts \cup {PyNone}}
         \cup {ConfInit("construct_config", d) : d \in ConfigParams}
         \cup {ConfInit("build", EmptyDict)}
         \cup {[ConfInit("_create_transfer_config", d) EXCEPT !.cpu_count = n] :
                   d \in TransferDicts, n \in CpuCounts}
    ELSE {ConfInit("none", EmptyDict)}

\* a call ended with r: the caller sees what is left of the dictionary and,
\* unless the call raised, a configuration; each assembled GPU configuration
\* holds two sub-config objects, made by this call
record_result(c, r) ==
    [c EXCEPT !.arg = r.params,
              !.objects = @ + 2,
              !.results = Append(@, [raised |-> r.raised, config |-> r.config,
                                      objs |-> IF r.raised = NoExc
                                               THEN {c.objects + 1, c.objects + 2}
                                               ELSE {}])]

call_GPUIndexCagraConfig_from_dict ==
    /\ entry = "config" /\ conf.fn = "GPUIndexCagraConfig.from_dict"
    /\ Len(conf.results) < MaxCalls
    /\ conf' = record_result(conf, GPUIndexCagraConfig_from_dict(conf.arg))
    /\ UNCHANGED <<runs, xfer, s3, poll, boto, entry, pc, heap, exc, stage, run>>

call_IndexHNSWCagraConfig_from_dict ==
    /\ entry = "config" /\ conf.fn = "IndexHNSWCagraConfig.from_dict"
    /\ Len(conf.results) < MaxCalls
    /\ conf' = record_result(conf, IndexHNSWCagraConfig_from_dict(conf.arg))
    /\ UNCHANGED <<runs, xfer, s3, poll, boto, entry, pc, heap, exc, stage, run>>

call_set_gpu_config ==
    /\ entry = "config" /\ conf.fn = "set_gpu_config"
    /\ Len(conf.results) < MaxCalls
    /\ conf' = record_result(conf, set_gpu_config(conf.arg))
    /\ UNCHANGED <<runs, xfer, s3, poll, boto, entry, pc, heap, exc, stage, run>>

call_construct_config ==
    /\ entry = "config" /\ conf.fn = "construct_config"
    /\ Len(conf.results) < MaxCalls
    /\ conf' = record_result(conf, construct_config(conf.arg))
    /\ UNCHANGED <<runs, xfer, s3, poll, boto, entry, pc, heap, exc, stage, run>>

\* S3ObjectStore.__init__, lines 91-93: the transfer config of a store
call_create_transfer_config ==
    /\ entry = "config" /\ conf.fn = "_create_transfer_config"
    /\ Len(conf.results) < MaxCalls
    /\ LET r == create_transfer_config(DEFAULT_TRANSFER_CONFIG(conf.cpu_count), conf.arg)
       IN conf' = [record_result(conf, [raised |-> NoExc, config |-> r.kwargs,
                                        params |-> conf.arg])
                      EXCEPT !.logged = r.logged]
    /\ UNCHANGED <<runs, xfer, s3, poll, boto, entry, pc, heap, exc, stage, run>>

\* IndexConfigBuilder().build(): no setter was called, lines 24-26, 115-124
call_build ==
    /\ entry = "config" /\ conf.fn = "build"
    /\ Len(conf.results) < MaxCalls
    /\ conf' = record_result(conf, [raised |-> NoExc,
                                    config |-> build(IndexHNSWCagraConfig,
                                                     GPUIndexCagraConfig, l2),
                                    params |-> conf.arg])
    /\ UNCHANGED <<runs, xfer, s3, poll, boto, entry, pc, heap, exc, stage, run>>

(***************************************************************************)
(* RemoteVectorAPIClient.wait_for_job_completion.  Time is the number of    *)
(* seconds since start_time; it passes while a status request is under way  *)
(* and while the loop sleeps.                                               *)
(***************************************************************************)
\* the longest timeout, in seconds
MaxTimeout == 2

\* the longest time a status request takes, in seconds
MaxDuration == 2

\* more status requests than a call makes whose sleeps take a second or more
MaxAttempts == MaxTimeout + 2

\* what get_job_status gives: a response with a task_status, one of the three
\* of JobStatus or another value, or APIError
StatusReplies == {"COMPLETED", "FAILED", "RUNNING", "OTHER", "APIError"}

\* lines 29-30, before the loop
PollInit(timeout, interval) ==
    [pc |-> "loop", elapsed |-> 0, timeout |-> timeout, interval |-> interval,
     attempts |-> 0, reply |-> "none", outcome |-> "none"]

PollInputs(e) ==
    IF e = "poll"
    THEN {PollInit(t, i) : t \in 0..MaxTimeout, i \in 1..2}
    ELSE {PollInit(0, 1)}

\* lines 35-38: the deadline check at the head of the loop
wait_for_job_completion_check ==
    /\ entry = "poll" /\ poll.pc = "loop"
    /\ poll' = IF poll.elapsed > poll.timeout
               THEN [poll EXCEPT !.pc = "done", !.outcome = "TimeoutError"]
               ELSE [poll EXCEPT !.pc = "request"]
    /\ UNCHANGED <<runs, xfer, s3, conf, boto, entry, pc, heap, exc, stage, run>>

\* a loop that goes on after a FAILED status
status_reply_retries_failed(p, reply, now) ==
    IF reply = "COMPLETED" THEN [p EXCEPT !.pc = "done", !.outcome = "returned"]
    ELSE IF reply = "OTHER" THEN [p EXCEPT !.pc = "done", !.outcome = "RuntimeError"]
    ELSE IF reply \in {"RUNNING", "FAILED"}
    THEN [p EXCEPT !.pc = "loop", !.elapsed = now + p.interval]
    ELSE IF now > p.timeout
    THEN [p EXCEPT !.pc = "done", !.outcome = "APIError"]
    ELSE [p EXCEPT !.pc = "loop", !.elapsed = now + p.interval]

\* a loop whose sleep takes no time
status_reply_sleep_takes_no_time(p, reply, now) ==
    IF reply = "COMPLETED" THEN [p EXCEPT !.pc = "done", !.outcome = "returned"]
    ELSE IF reply \in {"FAILED", "OTHER"}
    THEN [p EXCEPT !.pc = "done", !.outcome = "RuntimeError"]
    ELSE IF reply = "RUNNING" THEN [p EXCEPT !.pc = "loop", !.elapsed = now]
    ELSE IF now > p.timeout
    THEN [p EXCEPT !.pc = "done", !.outcome = "APIError"]
    ELSE [p EXCEPT !.pc = "loop", !.elapsed = now]

\* lines 44-69: what the loop does with the reply that arrives at time `now`
status_reply(p, reply, now) ==
    IF reply = "COMPLETED" THEN [p EXCEPT !.pc = "done", !.outcome = "returned"]
    ELSE IF reply \in {"FAILED", "OTHER"}
    THEN [p EXCEPT !.pc = "done", !.outcome = "RuntimeError"]
    ELSE IF reply = "RUNNING" THEN [p EXCEPT !.pc = "loop", !.elapsed = now + p.interval]
    ELSE IF now > p.timeout
    THEN [p EXCEPT !.pc = "done", !.outcome = "APIError"]
    ELSE [p EXCEPT !.pc = "loop", !.elapsed = now + p.interval]

\* lines 40-69: one status request and the handling of its reply
wait_for_job_completion_request ==
    /\ entry = "poll" /\ poll.pc = "request"
    /\ poll.attempts < MaxAttempts
    /\ \E reply \in StatusReplies, d \in 0..MaxDuration :
         poll' = status_reply([poll EXCEPT !.attempts = @ + 1, !.reply = reply,
                                           !.elapsed = @ + d],
                              reply, poll.elapsed + d)
    /\ UNCHANGED <<runs, xfer, s3, conf, boto, entry, pc, heap, exc, stage, run>>

(***************************************************************************)
(* Two runs of run_tasks at the same time, in one process and one file     *)
(* system: the resources each run acquires and releases.                   *)
(***************************************************************************)
RunIds == {1, 2}

\* the names tempfile.mkdtemp can come up with
TempDirs == {TempDir, <<"/", "tmp", "/", "u">>}

\* path p is the directory d or lies under it
Under(d, p) == Len(p) >= Len(d) /\ SubSeq(p, 1, Len(d)) = d

NoStorage == [kind |-> "none", id |-> 0, path |-> <<>>]

PairRun(mode, vector_path) ==
    [pc |-> "start", mode |-> mode, vector_path |-> vector_path,
     temp_dir |-> <<>>, index_storage |-> NoStorage,
     vector_buffer |-> 0, doc_id_buffer |-> 0, outcome |-> "none"]

PairInit(m1, vp1, m2, vp2) ==
    [r |-> [i \in RunIds |-> IF i = 1 THEN PairRun(m1, vp1) ELSE PairRun(m2, vp2)],
     dirs |-> {}, files |-> {}, open |-> {}, next |-> 1, lost |-> {}]

\* the vector paths of the two runs: a plain key and a key that starts with "/"
PairPaths == {<<"v", ".", "knnvec">>, <<"/", "a", "/", "v", ".", "knnvec">>}

PairInputs(e) ==
    IF e = "pair"
    THEN {PairInit(m1, vp1, m2, vp2) :
              m1 \in Modes, m2 \in Modes, vp1 \in PairPaths, vp2 \in PairPaths}
    ELSE {PairInit("DISK", <<"v", ".", "knnvec">>, "DISK", <<"v", ".", "knnvec">>)}

\* run i holds its temporary directory, its serialization target, its
\* staging buffers
HoldsTempDir(i) == runs.r[i].pc \in {"storage", "buffers", "build", "upload", "finally",
                                     "exit_storage", "exit_temp_dir"}

HoldsStorage(i) == runs.r[i].pc \in {"buffers", "build", "upload", "finally", "exit_storage"}

HoldsBuffers(i) == runs.r[i].pc \in {"build", "upload", "finally"}

\* the other runs that have the file p as their serialization target
UsersOfFile(i, p) ==
    {j \in RunIds \ {i} : HoldsStorage(j) /\ runs.r[j].index_storage.kind = "path"
                           /\ runs.r[j].index_storage.path = p}

PairUnchanged == UNCHANGED <<xfer, entry, pc, heap, exc, stage, run, boto, s3, conf, poll>>

\* line 108: tempfile.TemporaryDirectory() makes a directory that did not exist
pair_enter_temp_dir(i) ==
    /\ entry = "pair" /\ runs.r[i].pc = "start"
    /\ \E d \in TempDirs \ runs.dirs :
         runs' = [runs EXCEPT !.r[i].temp_dir = d, !.r[i].pc = "storage",
                              !.dirs = @ \cup {d}]
    /\ PairUnchanged

\* index_storage_context up to its yield, lines 388-405: a new BytesIO, or
\* the path os.path.join(temp_dir, vector_path)
pair_index_storage_enter(i) ==
    /\ entry = "pair" /\ runs.r[i].pc = "storage"
    /\ IF runs.r[i].mode = "MEMORY"
       THEN runs' = [runs EXCEPT
                        !.r[i].index_storage = [kind |-> "buffer", id |-> runs.next,
                                                path |-> <<>>],
                        !.open = @ \cup {runs.next}, !.next = @ + 1,
                        !.r[i].pc = "buffers"]
       ELSE runs' = [runs EXCEPT
                        !.r[i].index_storage =
                            [kind |-> "path", id |-> 0,
                             path |-> os_path_join(runs.r[i].temp_dir, runs.r[i].vector_path)],
                        !.r[i].pc = "buffers"]
    /\ PairUnchanged

\* lines 118-119: vector_buffer = BytesIO(); doc_id_buffer = BytesIO()
pair_buffers(i) ==
    /\ entry = "pair" /\ runs.r[i].pc = "buffers"
    /\ runs' = [runs EXCEPT !.r[i].vector_buffer = runs.next,
                            !.r[i].doc_id_buffer = runs.next + 1,
                            !.open = @ \cup {runs.next, runs.next + 1},
                            !.next = @ + 2,
                            !.r[i].pc = "build"]
    /\ PairUnchanged

\* lines 127-170: download, build and write_cpu_index, which makes the index
\* file in disk mode; a step that raises leaves for the finally clause
pair_build_and_write(i) ==
    /\ entry = "pair" /\ runs.r[i].pc = "build"
    /\ \/ runs' = [runs EXCEPT
                      !.files = IF runs.r[i].index_storage.kind = "path"
                                THEN @ \cup {runs.r[i].index_storage.path} ELSE @,
                      !.r[i].pc = "upload"]
       \/ runs' = [runs EXCEPT !.r[i].outcome = "error", !.r[i].pc = "finally"]
    /\ PairUnchanged

\* lines 182-197: upload_index reads the serialization target
pair_upload_index(i) ==
    /\ entry = "pair" /\ runs.r[i].pc = "upload"
    /\ LET t == runs.r[i].index_storage
           there == IF t.kind = "path" THEN t.path \in runs.files ELSE t.id \in runs.open
       IN runs' = [runs EXCEPT !.r[i].outcome = IF there THEN "file_name" ELSE "error",
                               !.r[i].pc = "finally"]
    /\ PairUnchanged

\* lines 206-211: vector_buffer.close(); doc_id_buffer.close()
pair_finally(i) ==
    /\ entry = "pair" /\ runs.r[i].pc = "finally"
    /\ runs' = [runs EXCEPT !.open = @ \ {runs.r[i].vector_buffer, runs.r[i].doc_id_buffer},
                            !.r[i].pc = "exit_storage"]
    /\ PairUnchanged

\* index_storage_context after its yield, lines 394-395 and 406-408
pair_index_storage_exit(i) ==
    /\ entry = "pair" /\ runs.r[i].pc = "exit_storage"
    /\ LET t == runs.r[i].index_storage
       IN IF t.kind = "buffer"
          THEN runs' = [runs EXCEPT !.open = @ \ {t.id}, !.r[i].pc = "exit_temp_dir"]
          ELSE runs' = [runs EXCEPT
                           !.files = @ \ {t.path},
                           !.lost = IF t.path \in runs.files
                                    THEN @ \cup UsersOfFile(i, t.path) ELSE @,
                           !.r[i].pc = "exit_temp_dir"]
    /\ PairUnchanged

\* TemporaryDirectory.__exit__: the directory goes with all that is under it
pair_exit_temp_dir(i) ==
    /\ entry = "pair" /\ runs.r[i].pc = "exit_temp_dir"
    /\ LET d == runs.r[i].temp_dir
           gone == {p \in runs.files : Under(d, p)}
       IN runs' = [runs EXCEPT
                      !.dirs = @ \ {d},
                      !.files = @ \ gone,
                      !.lost = @ \cup UNION {UsersOfFile(i, p) : p \in gone},
                      !.r[i].pc = "done"]
    /\ PairUnchanged

(***************************************************************************)
(* Blob operations at the same time on one S3ObjectStore with debug on:    *)
(* the progress counters, their locks, and the transfer threads of the     *)
(* transport that invoke the callbacks.                                    *)
(***************************************************************************)
CallIds == {1, 2}

\* transfer threads of one call of the transport
NumTransferThreads == 2

\* callback invocations of one transfer thread
MaxReports == 1

\* the byte count that transfer thread t hands to the callback: the threads
\* of a call report different counts
bytes_of(t) == t[2]

TransferThreads == CallIds \X (1..NumTransferThreads)

NoThread == <<0, 0>>

\* what an earlier transfer left in a counter
LeftOver == 5

\* the counter and the lock of a call: read_blob has _read_progress and
\* _read_progress_lock, write_blob has _write_progress and _write_progress_lock
counter_of(op) == IF op = "read_blob" THEN "read" ELSE "write"

XferInit(op1, op2, left) ==
    [progress |-> [k \in {"read", "write"} |-> left],
     lock |-> [k \in {"read", "write"} |-> NoThread],
     call |-> [c \in CallIds |->
                  [op |-> IF c = 1 THEN op1 ELSE op2, pc |-> "start",
                   reported |-> 0, seen |-> 0]],
     thread |-> [t \in TransferThreads |->
                    [pc |-> "idle", bytes |-> 0, local |-> 0, reports |-> 0]]]

XferInputs(e) ==
    IF e = "transfers"
    THEN {XferInit(op1, op2, left) :
              op1 \in {"read_blob", "write_blob"},
              op2 \in {"read_blob", "write_blob", "none"},
              left \in {0, LeftOver}}
    ELSE {XferInit("read_blob", "none", 0)}

XferUnchanged == UNCHANGED <<runs, entry, pc, heap, exc, stage, run, boto, s3, conf, poll>>

\* read_blob lines 158-160, write_blob lines 203-206: the counter is set to 0
\* under its lock
blob_reset_progress(c) ==
    /\ entry = "transfers"
    /\ xfer.call[c].op # "none" /\ xfer.call[c].pc = "start"
    /\ LET k == counter_of(xfer.call[c].op)
       IN /\ xfer.lock[k] = NoThread
          /\ xfer' = [xfer EXCEPT !.progress[k] = 0, !.call[c].pc = "running",
                                  !.call[c].seen = 0]
    /\ XferUnchanged

\* a callback that goes on without the lock
callback_acquire_without_lock(t) ==
    /\ entry = "transfers"
    /\ xfer.call[t[1]].pc = "running"
    /\ xfer.thread[t].pc = "idle" /\ xfer.thread[t].reports < MaxReports
    /\ xfer' = [xfer EXCEPT !.thread[t].pc = "locked", !.thread[t].bytes = bytes_of(t)]
    /\ XferUnchanged

\* lines 162-163, 208-209: a transfer thread calls callback(bytes) and takes
\* the lock of the counter
callback_acquire(t) ==
    /\ entry = "transfers"
    /\ xfer.call[t[1]].pc = "running"
    /\ xfer.thread[t].pc = "idle" /\ xfer.thread[t].reports < MaxReports
    /\ LET k == counter_of(xfer.call[t[1]].op)
       IN /\ xfer.lock[k] = NoThread
          /\ xfer' = [xfer EXCEPT !.lock[k] = t, !.thread[t].pc = "locked",
                                  !.thread[t].bytes = bytes_of(t)]
    /\ XferUnchanged

\* lines 164, 210: the counter is read for the +=
callback_load(t) ==
    /\ entry = "transfers"
    /\ xfer.thread[t].pc = "locked"
    /\ xfer' = [xfer EXCEPT !.thread[t].local = xfer.progress[counter_of(xfer.call[t[1]].op)],
                            !.thread[t].pc = "loaded"]
    /\ XferUnchanged

\* lines 164-165, 210-211: the sum is stored and logged, the lock is released
callback_store(t) ==
    /\ entry = "transfers"
    /\ xfer.thread[t].pc = "loaded"
    /\ LET k == counter_of(xfer.call[t[1]].op)
           sum == xfer.thread[t].local + xfer.thread[t].bytes
       IN xfer' = [xfer EXCEPT !.progress[k] = sum,
                               !.call[t[1]].seen = sum,
                               !.call[t[1]].reported = @ + xfer.thread[t].bytes,
                               !.lock[k] = IF @ = t THEN NoThread ELSE @,
                               !.thread[t].pc = "idle",
                               !.thread[t].bytes = 0,
                               !.thread[t].local = 0,
                               !.thread[t].reports = @ + 1]
    /\ XferUnchanged

\* lines 170-177, 216-223: the transport returns when its threads are done
blob_return(c) ==
    /\ entry = "transfers"
    /\ xfer.call[c].pc = "running"
    /\ \A t \in TransferThreads : t[1] = c => xfer.thread[t].pc = "idle"
    /\ xfer' = [xfer EXCEPT !.call[c].pc = "done"]
    /\ XferUnchanged

\* the object_store_config argument of run_tasks: absent, or a dictionary
ObjectStoreConfigs == {"None", "given"}

\* the arguments of a call of the entry point e
RunInputs(e) ==
    IF e = "tasks"
    THEN {[RunInit(mode, data_type, repo_ok) EXCEPT !.vector_path = vp, !.engine = en,
                                                   !.config_arg = cfg,
                                                   !.object_store_config = cfg] :
              mode \in Modes, data_type \in DataTypes, repo_ok \in BOOLEAN,
              vp \in VectorPaths, en \in Engines, cfg \in ObjectStoreConfigs}
    ELSE IF e = "upload"
    THEN {[RunInit("MEMORY", "FLOAT", TRUE) EXCEPT !.vector_path = vp, !.engine = en,
                                                   !.index_storage = data] :
              vp \in KnnvecPaths, en \in Engines,
              data \in {"index_buffer", "index_local_path"}}
    ELSE {RunInit("DISK", "FLOAT", TRUE)}

Init ==
    /\ entry \in Entries
    /\ pc = "start"
    /\ heap = EmptyHeap
    /\ exc = NoExc
    /\ stage = NoStages
    /\ run \in RunInputs(entry)
    /\ boto = BotoInit
    /\ s3 \in BlobInputs(entry)
    /\ conf \in ConfInputs(entry)
    /\ poll \in PollInputs(entry)
    /\ runs \in PairInputs(entry)
    /\ xfer \in XferInputs(entry)

Next ==
    \/ FaissIndexBuilder_create_config
    \/ FaissIndexBuilder_create_gpu_index
    \/ FaissIndexBuilder_new_cpu_index
    \/ FaissIndexBuilder_copyTo
    \/ FaissIndexBuilder_set_index
    \/ FaissIndexBuilder_write_index
    \/ FaissIndexBuilder_create_and_write_finally
    \/ FaissIndexBuilder_build_gpu_index_finally
    \/ FaissIndexBuildService_gpu_config
    \/ FaissIndexBuildService_build_gpu_index
    \/ FaissIndexBuildService_cpu_config
    \/ FaissIndexBuildService_new_cpu_index
    \/ FaissIndexBuildService_copyTo
    \/ FaissIndexBuildService_set_index
    \/ FaissIndexBuildService_convert_return
    \/ FaissIndexBuildService_write_cpu_index
    \/ FaissIndexBuildService_build_index_finally
    \/ run_tasks_enter_temp_dir
    \/ index_storage_context_enter
    \/ run_tasks_buffers
    \/ run_tasks_create_object_store
    \/ create_vectors_dataset_read_vectors
    \/ create_vectors_dataset_read_doc_ids
    \/ create_vectors_dataset_parse
    \/ run_tasks_build_gpu_index
    \/ do_convert_new_cpu_index
    \/ do_convert_copyTo
    \/ do_convert_detach_id_map
    \/ do_convert_set_index
    \/ do_convert_cleanup
    \/ do_convert_return
    \/ build_index_convert_failed
    \/ run_tasks_free_vectors
    \/ run_tasks_write_cpu_index
    \/ run_tasks_upload_index
    \/ run_tasks_except
    \/ run_tasks_cancel
    \/ run_tasks_finally
    \/ index_storage_context_exit
    \/ run_tasks_exit_temp_dir
    \/ upload_index
    \/ \E t \in Threads : S3ObjectStore_init(t)
    \/ \E t \in Threads : cache_lookup(t)
    \/ \E t \in Threads : get_boto3_client(t)
    \/ \E t \in Threads : cache_store(t)
    \/ \E d \in BOOLEAN : S3ObjectStore_read_blob(d)
    \/ \E d \in BOOLEAN : S3ObjectStore_write_blob(d)
    \/ \E d \in BOOLEAN : transport_chunk(d)
    \/ \E d \in BOOLEAN : S3ObjectStore_blob_end(d)
    \/ call_GPUIndexCagraConfig_from_dict
    \/ call_IndexHNSWCagraConfig_from_dict
    \/ call_set_gpu_config
    \/ call_construct_config
    \/ call_build
    \/ call_create_transfer_config
    \/ wait_for_job_completion_check
    \/ wait_for_job_completion_request
    \/ \E i \in RunIds : pair_enter_temp_dir(i)
    \/ \E i \in RunIds : pair_index_storage_enter(i)
    \/ \E i \in RunIds : pair_buffers(i)
    \/ \E i \in RunIds : pair_build_and_write(i)
    \/ \E i \in RunIds : pair_upload_index(i)
    \/ \E i \in RunIds : pair_finally(i)
    \/ \E i \in RunIds : pair_index_storage_exit(i)
    \/ \E i \in RunIds : pair_exit_temp_dir(i)
    \/ \E c \in CallIds : blob_reset_progress(c)
    \/ \E t \in TransferThreads : callback_acquire(t)
    \/ \E t \in TransferThreads : callback_load(t)
    \/ \E t \in TransferThreads : callback_store(t)
    \/ \E c \in CallIds : blob_return(c)

Spec == Init /\ [][Next]_vars

(***************************************************************************)
(* Release called again by the holder of a response, at the point where    *)
(* the build is over and only the cleanup is left.                         *)
(***************************************************************************)
\* an explicit CreateGPUIndexResponse.__del__ / FaissGPUIndexResponse.__del__
release_gpu_response ==
    /\ entry \in {"builder", "service"}
    /\ pc \in {"b_finally", "s_finally"}
    /\ heap.gpu_resp.state = "live"
    /\ heap.gpu_resp.dels < MaxDels
    /\ heap' = CreateGPUIndexResponse_del(heap)
    /\ UNCHANGED <<runs, xfer, s3, conf, poll, boto, entry, pc, exc, stage, run>>

\* an explicit FaissCPUIndexResponse.__del__
release_cpu_response ==
    /\ entry = "service"
    /\ pc = "s_finally"
    /\ heap.cpu_resp.state = "live"
    /\ heap.cpu_resp.dels < MaxDels
    /\ heap' = FaissCPUIndexResponse_del(heap)
    /\ UNCHANGED <<runs, xfer, s3, conf, poll, boto, entry, pc, exc, stage, run>>

NextRelease == Next \/ release_gpu_response \/ release_cpu_response

SpecRelease == Init /\ [][NextRelease]_vars

(***************************************************************************)
(* A call of wait_for_job_completion that is not held up: the thread that  *)
(* runs the loop goes on, and every status request ends, with a response   *)
(* or, after the timeout of the HTTP request at the latest, with APIError. *)
(***************************************************************************)
InitPoll == Init /\ entry = "poll"

NextPoll == wait_for_job_completion_check \/ wait_for_job_completion_request

SpecPoll ==
    /\ InitPoll
    /\ [][NextPoll]_vars
    /\ WF_vars(wait_for_job_completion_check)
    /\ WF_vars(wait_for_job_completion_request)

(***************************************************************************)
(* Properties.                                                             *)
(***************************************************************************)
Done == pc = "done"

Created(h, x) == h.native[x] # "none"

\* C1: every native structure created during a build (GPU index, id map, CPU
\* index) has been released exactly once when the call is over, on success
\* and after a failure at any step.
C1_ReleasedExactlyOnce ==
    Done => \A x \in Structs : Created(heap, x) => heap.frees[x] = 1

\* the response objects that hold x
HandleOwners(h, x) == Owners(h, x) \ {"frame"}

\* the conversion has returned a CPU handle
Converted == stage.succeeded["convert"] = 1 /\ heap.cpu_resp.state = "live"

\* C2: at every instant no live native structure is held by two handles, and
\* once the conversion has returned, the id map is held by the CPU handle
\* only and wraps the CPU index.
C2_SingleOwnerAfterConversion ==
    /\ \A x \in Structs :
         heap.native[x] = "live" => Cardinality(HandleOwners(heap, x)) <= 1
    /\ Converted =>
         /\ heap.gpu_resp.index_id_map # "ref"
         /\ heap.cpu_resp.index_id_map = "ref"
         /\ heap.index = "cpu"

\* the error of a failed conversion is with the caller of the conversion
ConvertErrorAtCaller ==
    /\ stage.started["convert"] = 1
    /\ stage.succeeded["convert"] = 0
    /\ exc # NoExc
    /\ pc \in {"s_finally", "t_convert_failed"}

\* C3: when the error of a failed conversion reaches the caller, the source
\* GPU handle has been released and no CPU index of the conversion is left
\* unreleased.
C3_FailedConversionReleases ==
    ConvertErrorAtCaller =>
        /\ heap.gpu_resp.dels >= 1
        /\ heap.native["gpu"] = "freed"
        /\ heap.native["cpu"] # "live"

\* what a release may change on a handle that was released before: nothing
\* but the count of the calls and the lines printed
SameButCalls(h, g) ==
    g = [h EXCEPT !.gpu_resp.dels = g.gpu_resp.dels,
                  !.cpu_resp.dels = g.cpu_resp.dels,
                  !.printed = g.printed]

Returned == entry = "tasks" /\ Done /\ run.result.returned

\* C5: exactly one of file_name and error of a returned TaskResult is
\* non-empty.
C5_ResultExclusive ==
    Returned => (NonEmpty(run.result.file_name) # NonEmpty(run.result.error))

\* C6: no error leaves run_tasks as an exception; a cancellation signal is
\* not an error.
C6_NeverRaises ==
    (entry = "tasks" /\ Done) => exc.kind \in {"none", "KeyboardInterrupt"}

\* the stages after s
Later(s) == {Stages[j] : j \in {k \in 1..Len(Stages) :
                                  \E i \in 1..Len(Stages) : Stages[i] = s /\ k > i}}

\* C7: when a stage of run_tasks raised an exception with message m, no later
\* stage was started and the result is TaskResult(file_name=None, error=m).
C7_FailureShortCircuits ==
    (entry = "tasks" /\ stage.error.some) =>
        /\ \A s \in StageSet : stage.failed[s] + (IF stage.active = s THEN 1 ELSE 0) >= 1
              => \A t \in Later(s) : stage.started[t] = 0
        /\ Done => (run.result = TaskResult(None, stage.error) /\ exc = NoExc)

\* C7 witness: the build stage failed with a message and run_tasks returned
C7_Witness ==
    /\ Returned
    /\ stage.failed["build"] = 1
    /\ NonEmpty(stage.error)
    /\ stage.succeeded["fetch"] = 1

\* the stages an entry point has
StagesOf(e) == IF e = "tasks" THEN 1..5 ELSE 2..4

InFlight(s) == stage.started[s] - stage.succeeded[s] - stage.failed[s]

\* C8: the stages of a call start in the order fetch, build, convert,
\* persist, upload, each at most once and only after the one before it
\* succeeded; at most one is in flight; a run that returns a file name has
\* completed each of them exactly once.
C8_StageOrder ==
    /\ \A i \in StagesOf(entry) :
         /\ stage.started[Stages[i]] <= 1
         /\ InFlight(Stages[i]) = (IF stage.active = Stages[i] THEN 1 ELSE 0)
         /\ (i + 1 \in StagesOf(entry) /\ stage.started[Stages[i + 1]] >= 1)
               => stage.succeeded[Stages[i]] = 1
    /\ \A s \in StageSet \ {Stages[i] : i \in StagesOf(entry)} : stage.started[s] = 0
    /\ (Returned /\ run.result.file_name.some)
          => \A s \in StageSet : stage.started[s] = 1 /\ stage.succeeded[s] = 1

\* C8 witness: a run that returned a file name
C8_Witness == Returned /\ run.result.file_name.some

\* the build stage of run_tasks, the call of build_index, raised
BuildRaised == stage.failed["build"] = 1 \/ stage.failed["convert"] = 1

\* C9: if the build stage raised, then after run_tasks has returned the
\* serialization target is gone (buffer closed, index file absent), the
\* temporary directory is removed, both staging buffers are closed and no GPU
\* index is live.
C9_CleanupAfterBuildFailure ==
    (entry = "tasks" /\ Done /\ BuildRaised) =>
        /\ run.storage \in {"buffer_closed", "path_left"}
        /\ run.index_file = "absent"
        /\ run.temp_dir = "removed"
        /\ run.vector_buffer = "closed"
        /\ run.doc_id_buffer = "closed"
        /\ heap.native["gpu"] # "live"
        /\ heap.gpu_resp.index # "ref"

\* C9 witness: the GPU build failed after the GPU index was created, and
\* run_tasks has returned
C9_Witness ==
    /\ Returned
    /\ stage.failed["build"] = 1
    /\ heap.frees["gpu"] = 1

\* C10: every staging buffer that received downloaded bytes is closed and
\* the vectors dataset is freed when run_tasks is over: on success, on the
\* failure of a stage and on cancellation.
C10_BuffersClosed ==
    (entry = "tasks" /\ Done) =>
        /\ \A b \in run.received : run[b] = "closed"
        /\ run.dataset # "live"

\* the with-body of index_storage_context was entered and has been left
StorageLeft ==
    entry = "tasks" /\ pc \in {"t_exit_temp_dir", "done"} /\ run.storage # "none"

\* C11: index_storage_context destroys its target on every exit of the
\* with-body, normal or by exception: in memory mode the buffer is closed, in
\* disk mode no file is left at the yielded path, and leaving adds no error,
\* also when the path was never written.
C11_StorageDestroyedOnExit ==
    /\ StorageLeft =>
         /\ run.mode = "MEMORY" => run.storage = "buffer_closed"
         /\ run.mode = "DISK" => (run.storage = "path_left" /\ run.index_file = "absent")
    /\ (entry = "tasks" /\ pc = "t_exit_temp_dir")
          => exc.kind \in {"none", "KeyboardInterrupt"}

\* C11 witness: the index file was written in disk mode and is gone after
\* the with-body was left
C11_Witness ==
    /\ StorageLeft
    /\ run.mode = "DISK"
    /\ stage.succeeded["persist"] = 1
    /\ run.index_file = "absent"

\* the components of a path with "", "." and ".." resolved
RECURSIVE resolve(_, _)
resolve(parts, acc) ==
    IF parts = <<>> THEN acc
    ELSE LET c == Head(parts)
         IN resolve(Tail(parts),
                    IF c = <<>> \/ c = <<".">> THEN acc
                    ELSE IF c = <<".", ".">>
                         THEN SubSeq(acc, 1, Len(acc) - 1)
                         ELSE Append(acc, c))

\* path names dir or something below it
Inside(path, dir) ==
    LET a == resolve(split(path, "/"), <<>>)
        d == resolve(split(dir, "/"), <<>>)
    IN Len(a) >= Len(d) /\ SubSeq(a, 1, Len(d)) = d

\* C12: in disk mode the index path that index_storage_context yields, and
\* the directory it creates for it, lie inside the temporary directory of
\* the run, whatever the vector path.
C12_IndexPathInsideTempDir ==
    (entry = "tasks" /\ run.storage = "path") =>
        /\ Inside(run.index_local_path, TempDir)
        /\ Inside(run.directory, TempDir)

\* run_tasks is inside build_index, or between its return and the free
BuildingOrConverting ==
    pc \in {"t_build_gpu", "t_new_cpu", "t_copy", "t_detach", "t_set_index",
            "t_cleanup", "t_convert_return", "t_convert_failed", "t_free"}

\* only the exits of the with statement are left of the run
RunOver == pc \in {"t_exit_storage", "t_exit_temp_dir", "done"}

\* C13: in run_tasks the dataset is live all through build and conversion;
\* when the write of the CPU index starts, the conversion has succeeded, the
\* dataset is freed and both staging buffers are closed; a dataset freed
\* without a finished conversion is freed by the finally clause of a run
\* that is over.
C13_FreeAfterConversion ==
    entry = "tasks" =>
        /\ BuildingOrConverting => run.dataset = "live"
        /\ stage.started["persist"] >= 1 =>
             /\ stage.succeeded["convert"] = 1
             /\ run.dataset = "freed"
             /\ run.vector_buffer = "closed"
             /\ run.doc_id_buffer = "closed"
        /\ (run.dataset = "freed" /\ stage.succeeded["convert"] = 0) => RunOver

\* C13 witness: the CPU index is there, the dataset is freed, the write has
\* not started
C13_Witness ==
    /\ entry = "tasks" /\ pc = "t_write"
    /\ heap.cpu_resp.state = "live"
    /\ run.dataset = "freed"
    /\ stage.started["persist"] = 0

ReplacedExtension(vector_path, engine) ==
    SubSeq(vector_path, 1, Len(vector_path) - 2) \o <<".">> \o engine

EndsWithKnnvec(vector_path) ==
    /\ Len(vector_path) >= 2
    /\ SubSeq(vector_path, Len(vector_path) - 1, Len(vector_path)) = <<".", "knnvec">>

LastComponent(path) ==
    LET parts == split(path, "/") IN parts[Len(parts)]

\* C16: a run that returns a file name returns error None and the last
\* component of the remote path the upload returned, not the path itself.
C16_ResultIsBaseName ==
    (Returned /\ run.result.file_name.some) =>
        /\ run.result.error = None
        /\ run.remote_path.some
        /\ run.result.file_name.val = LastComponent(run.remote_path.val)
        /\ \A i \in 1..Len(run.result.file_name.val) : run.result.file_name.val[i] # "/"

\* C16 witness: the remote path has a directory, the file name has none
C16_Witness ==
    /\ Returned
    /\ run.remote_path = Some(<<"a", "/", "v", ".", "faiss">>)
    /\ run.result.file_name = Some(<<"v", ".", "faiss">>)

BothReads == <<"vector_path", "doc_id_path">>

C18_UnsupportedRepositoryType ==
    (entry = "tasks" /\ ~run.repo_ok) =>
        /\ run.reads = <<>> /\ run.writes = 0 /\ run.stores = 0
        /\ run.engines = 0
        /\ \A x \in Structs : heap.native[x] = "none"
        /\ (Done /\ run.store_calls = 1) =>
             /\ Returned
             /\ run.result.file_name = None
             /\ NonEmpty(run.result.error)

\* C18 witness: the factory refused and run_tasks returned
C18_Witness ==
    /\ Returned /\ ~run.repo_ok
    /\ run.store_calls = 1
    /\ NonEmpty(run.result.error)

\* C19: a failure that the transport reports to read_blob or write_blob
\* reaches the caller as BlobError, whatever the class of the exception the
\* transport raised.
C19_TransferFailsAsBlobError ==
    (run.transport_error # "none" /\ exc # NoExc) => exc.kind = "BlobError"

\* the threads whose call of get_boto3_client has returned
ReturnedThreads == {t \in Threads : boto.th[t].pc = "returned"}

\* C20: get_boto3_client creates one client per (region, retries) pair and
\* returns that client on every call with the pair, also when the first
\* calls for the pair are concurrent; a stored cache entry is never
\* replaced; different pairs get different clients.
C20_OneClientPerKey ==
    entry = "clients" =>
        /\ \A k \in CacheKeys : boto.created[k] <= 1
        /\ ~boto.replaced
        /\ \A t1, t2 \in ReturnedThreads :
             (boto.th[t1].key = boto.th[t2].key) = (boto.th[t1].client = boto.th[t2].client)


\* the arguments a store passed to the transport, the Callback aside
TransportArgs(o) == [fn |-> o.call.fn, Bucket |-> o.call.Bucket, Key |-> o.call.Key,
                     target |-> o.call.target, Config |-> o.call.Config]

\* C21: progress reporting is a side channel.  The same transfer on a store
\* with debug off and on a store with debug on passes the same function,
\* bucket, key, data target and transfer config to the transport, and ends
\* the same way: both return, or both raise the same exception.  Debug adds
\* the Callback and the progress counter, and nothing else: without debug no
\* Callback is passed and no counter moves.
C21_ProgressIsSideChannel ==
    LET off == s3.obj[FALSE]
        on == s3.obj[TRUE]
    IN /\ (off.pc # "idle" /\ on.pc # "idle") => TransportArgs(off) = TransportArgs(on)
       /\ (off.pc = "done" /\ on.pc = "done") =>
              /\ off.returned = on.returned
              /\ off.raised = on.raised
       /\ ~off.call.Callback /\ off.read_progress = 0 /\ off.write_progress = 0
       /\ on.pc # "idle" => on.call.Callback
       /\ on.read_progress + on.write_progress = on.chunks

\* a failed transfer of several chunks, over on both stores
C21_Witness ==
    /\ entry = "blob"
    /\ s3.obj[FALSE].pc = "done" /\ s3.obj[TRUE].pc = "done"
    /\ s3.obj[TRUE].raised.kind = "BlobError"
    /\ s3.obj[TRUE].read_progress = MaxChunks


GpuFns == {"GPUIndexCagraConfig.from_dict", "set_gpu_config"}

Calls == 1..Len(conf.results)

\* C22: assembly is deterministic.  Two successive calls of
\* GPUIndexCagraConfig.from_dict, or of set_gpu_config, with the same
\* dictionary end the same way and, where they return, yield structurally
\* equal configurations, the nested sub-configs included.
C22_AssemblyDeterministic ==
    conf.fn \in GpuFns =>
        \A i, j \in Calls :
            /\ conf.results[i].raised = conf.results[j].raised
            /\ conf.results[i].config = conf.results[j].config

\* C23: assembly has no side effect on its input.  After a call of from_dict,
\* set_gpu_config or construct_config has returned or raised, the caller's
\* dictionary holds the keys and values it held before, and no sub-config
\* object belongs to two assembled configurations.
C23_AssemblyLeavesInputs ==
    (conf.fn \in GpuFns \cup {"construct_config"} /\ Len(conf.results) >= 1) =>
        /\ conf.arg = conf.given
        /\ \A i, j \in Calls :
               i # j => conf.results[i].objs \cap conf.results[j].objs = {}

\* C24: empty or absent overrides never raise and give the defaults.  from_dict
\* of the GPU and of the HNSW config with None or {} returns the all-default
\* config; construct_config({}) returns a build config with the default HNSW
\* config, the default GPU config and the default metric l2.
C24_EmptyOverridesGiveDefaults ==
    \A i \in Calls :
        LET r == conf.results[i]
        IN /\ (conf.fn = "GPUIndexCagraConfig.from_dict" /\ ~truthy(conf.given)) =>
                  r.raised = NoExc /\ r.config = FaissGPUIndexCagraConfig
           /\ (conf.fn = "IndexHNSWCagraConfig.from_dict" /\ ~truthy(conf.given)) =>
                  r.raised = NoExc /\ r.config = FaissIndexHNSWCagraConfig
           /\ (conf.fn = "construct_config" /\ conf.given = EmptyDict) =>
                  /\ r.raised = NoExc
                  /\ r.config = build(IndexHNSWCagraConfig, GPUIndexCagraConfig, l2)

\* C25: a build configuration made from parameters without a 'metric' entry
\* has the metric l2, and one made from parameters with a 'metric' entry has
\* that metric.
C25_MetricDefaultsToL2 ==
    \A i \in Calls :
        (conf.fn \in {"construct_config", "build"} /\ conf.results[i].raised = NoExc) =>
            conf.results[i].config.metric =
                IF "metric" \in DOMAIN conf.given THEN conf.given.metric ELSE l2

ValidGpu(c) == c.intermediate_graph_degree > 0 /\ c.graph_degree > 0 /\ c.device >= 0

ValidHnsw(c) == c.ef_search > 0 /\ c.ef_construction > 0

ValidConfig(fn, c) ==
    CASE fn \in GpuFns -> ValidGpu(c)
      [] fn = "IndexHNSWCagraConfig.from_dict" -> ValidHnsw(c)
      [] OTHER -> ValidGpu(c.gpu_index_cagra_config) /\ ValidHnsw(c.index_hnsw_cagra_config)

\* the keys of a dictionary of overrides whose value breaks its invariant
OffendingKeys(d) ==
    {k \in DOMAIN d \cap {"intermediate_graph_degree", "graph_degree",
                          "ef_search", "ef_construction"} : d[k] <= 0}
    \cup {k \in DOMAIN d \cap {"device"} : d[k] < 0}

Offending(fn, given) ==
    IF fn = "construct_config"
    THEN OffendingKeys(dict_get(given, "hnsw_config", EmptyDict))
         \cup OffendingKeys(dict_get(given, "gpu_config", EmptyDict))
    ELSE OffendingKeys(given)

\* C26: every configuration that assembly returns has intermediate_graph_degree,
\* graph_degree, ef_search and ef_construction above 0 and device at least 0;
\* when an override breaks one of these, the call raises, no configuration is
\* returned, and a field that the validation's error names is an offending one.
C26_ParameterInvariants ==
    \A i \in Calls :
        LET r == conf.results[i]
        IN /\ r.raised = NoExc => ValidConfig(conf.fn, r.config)
           /\ Offending(conf.fn, conf.given) # {} =>
                  /\ r.raised # NoExc
                  /\ r.config = EmptyDict
                  /\ (r.raised.kind = "ValueError" /\ Len(r.raised.msg) = 3) =>
                         r.raised.msg[2] \in Offending(conf.fn, conf.given)

\* defaults with the entries of `overrides` over them
Merged(defaults, overrides) ==
    [f \in DOMAIN defaults |-> IF f \in DOMAIN overrides THEN overrides[f] ELSE defaults[f]]

\* an override as a field holds it: a graph_build_algo string is held as the
\* enum member of that value
AsFields(d) ==
    IF "graph_build_algo" \in DOMAIN d
    THEN put(d, "graph_build_algo", <<"GraphBuildAlgo", d.graph_build_algo[2]>>)
    ELSE d

\* the layers of the overrides `given` merged over the defaults
LayeredMerge(defaults, given) ==
    LET d == IF given = PyNone THEN EmptyDict ELSE given
    IN Merged([defaults EXCEPT
                  !.ivf_pq_build_config =
                      Merged(@, dict_get(d, "ivf_pq_build_params", EmptyDict)),
                  !.ivf_pq_search_config =
                      Merged(@, dict_get(d, "ivf_pq_search_params", EmptyDict))],
              AsFields(d))

DefaultsOf(fn) ==
    IF fn = "set_gpu_config" THEN GPUIndexCagraConfig ELSE FaissGPUIndexCagraConfig

\* C27: overrides are merged over the defaults layer by layer.  In the
\* configuration that from_dict or set_gpu_config makes from a dictionary,
\* every field whose key is present, at the top level or in
\* ivf_pq_build_params or ivf_pq_search_params, has the given value, every
\* other field has its default, and a sub-dictionary that is absent or empty
\* gives the default sub-config.
C27_LayeredMerge ==
    (conf.fn \in GpuFns /\ Len(conf.results) >= 1 /\ conf.results[1].raised = NoExc) =>
        conf.results[1].config = LayeredMerge(DefaultsOf(conf.fn), conf.given)

\* the graph_build_algo of the overrides, where they have one
GivenAlgo(fn, given) ==
    LET d == IF fn = "construct_config" THEN dict_get(given, "gpu_config", EmptyDict)
             ELSE given
    IN dict_get(d, "graph_build_algo", NoneValue)

\* C28: a graph_build_algo that is none of the known variants makes assembly
\* raise: no configuration is made from such overrides.
C28_UnknownAlgoFails ==
    (/\ conf.fn \in GpuFns \cup {"construct_config"}
     /\ Len(conf.results) >= 1
     /\ GivenAlgo(conf.fn, conf.given) # NoneValue
     /\ GivenAlgo(conf.fn, conf.given)[2] \notin GraphBuildAlgoValues) =>
        /\ conf.results[1].raised # NoExc
        /\ conf.results[1].config = EmptyDict


\* C29: a deadline that passes is reported as TimeoutError.  When
\* wait_for_job_completion ends with more than `timeout` seconds elapsed and
\* the job has not reported COMPLETED or FAILED, it ends with TimeoutError,
\* whether the last status request succeeded or failed.
C29_DeadlineIsTimeoutError ==
    (/\ poll.pc = "done"
     /\ poll.elapsed > poll.timeout
     /\ poll.reply \notin {"COMPLETED", "FAILED"}) =>
        poll.outcome = "TimeoutError"


\* the text t ends with the text e
EndsWith(t, e) == Len(t) >= Len(e) /\ SubSeq(t, Len(t) - Len(e) + 1, Len(t)) = e

\* the stages before the upload have succeeded
FetchedAndBuilt ==
    \A s \in {"fetch", "build", "convert", "persist"} : stage.succeeded[s] = 1

\* C30: a run in MEMORY mode with the default object store config that returns
\* after its fetch and build succeeded has a result without error whose file_name is not
\* empty and ends in "." and the engine; the buffer that index_storage_context
\* yielded is what the index was written to, what write_blob was given and
\* what was uploaded.
C30_MemoryRunUploadsBuffer ==
    (/\ entry = "tasks" /\ Done
     /\ run.mode = "MEMORY" /\ run.config_arg = "None"
     /\ FetchedAndBuilt /\ run.result.returned) =>
        /\ run.result.error = None
        /\ NonEmpty(run.result.file_name)
        /\ EndsWith(run.result.file_name.val, <<".">> \o run.engine)
        /\ run.written_to = "index_buffer"
        /\ run.write_data = "index_buffer"
        /\ run.uploaded = "index_buffer"


\* C31: _create_transfer_config does not fail on an unknown key.  In what it
\* returns, a known key that the caller supplied with a value has that value,
\* a known key that the caller did not supply has its default, a key whose
\* value is None is left out, and an unknown key is left out and logged.
C31_TransferConfigMerge ==
    (conf.fn = "_create_transfer_config" /\ Len(conf.results) >= 1) =>
        LET r == conf.results[1]
            defaults == DEFAULT_TRANSFER_CONFIG(conf.cpu_count)
        IN /\ r.raised = NoExc
           /\ DOMAIN r.config \subseteq DOMAIN defaults
           /\ \A k \in DOMAIN defaults :
                 LET v == IF k \in DOMAIN conf.given THEN conf.given[k] ELSE defaults[k]
                 IN IF v.some THEN k \in DOMAIN r.config /\ r.config[k] = v.val
                    ELSE k \notin DOMAIN r.config
           /\ conf.logged = DOMAIN conf.given \ DOMAIN defaults
           /\ conf.arg = conf.given

\* a custom config with a known key, a None and an unknown key has been merged
C31_Witness ==
    /\ conf.fn = "_create_transfer_config" /\ Len(conf.results) >= 1
    /\ conf.given = [multipart_chunksize |-> None, max_concurrency |-> Some(8),
                     invalid_param |-> Some("value")]
    /\ conf.logged = {"invalid_param"}
    /\ conf.results[1].config.max_concurrency = 8

\* C38: the default max_concurrency is at least 1 for every value of
\* os.cpu_count(): None and every integer from 1 upwards.
C38_DefaultConcurrencyPositive ==
    conf.fn = "_create_transfer_config" =>
        DEFAULT_TRANSFER_CONFIG(conf.cpu_count).max_concurrency.val >= 1

\* C32: cleanup never masks the primary error.  The exception that is pending
\* when build_index of the service enters its finally clause (the wrapped
\* error of the step that failed) is the exception that leaves build_index.
C32_CleanupKeepsPrimaryError ==
    [][(entry = "service" /\ pc = "s_finally" /\ exc # NoExc /\ pc' = "done")
          => exc' = exc]_vars

ConfigPending ==
    \/ entry \in {"builder", "service"} /\ pc = "start"
    \/ entry = "service" /\ pc = "s_cpu_config"

\* C34: both index configurations are assembled and validated before the GPU
\* index is created: while a configuration is still to be assembled, no
\* native structure has been created, so a configuration error leaves no GPU
\* index allocated.
C34_ConfigBeforeGpuIndex ==
    ConfigPending => \A x \in Structs : ~Created(heap, x)

\* what run i holds: its temporary directory, its staging buffers and its
\* serialization target
Resources(i) ==
    (IF HoldsTempDir(i) THEN {<<"dir", runs.r[i].temp_dir>>} ELSE {})
    \cup (IF HoldsBuffers(i)
          THEN {<<"buffer", runs.r[i].vector_buffer>>, <<"buffer", runs.r[i].doc_id_buffer>>}
          ELSE {})
    \cup (IF HoldsStorage(i)
          THEN (IF runs.r[i].index_storage.kind = "buffer"
                THEN {<<"buffer", runs.r[i].index_storage.id>>}
                ELSE {<<"file", runs.r[i].index_storage.path>>})
          ELSE {})

\* C35: two runs of run_tasks at the same time, with equal or different vector
\* paths, never hold the same temporary directory, staging buffer or
\* serialization target, and the cleanup of one never closes or deletes what
\* the other holds.
C35_RunsShareNothing ==
    entry = "pair" =>
        /\ Resources(1) \cap Resources(2) = {}
        /\ runs.lost = {}

\* C36: blob operations at the same time on one object store each see only
\* their own progress count: what the callback of a call logs is the sum of
\* the byte counts reported to that call, whatever the other call resets or
\* adds.
C36_CallsSeeOwnProgress ==
    entry = "transfers" =>
        \A c \in CallIds :
            xfer.call[c].pc # "start" => xfer.call[c].seen = xfer.call[c].reported

\* call c is the only one on the store that uses its counter
AloneOnCounter(c) ==
    \A d \in CallIds \ {c} : xfer.call[d].op # xfer.call[c].op

\* C37: with debug on, the progress counter of a transfer is 0 when read_blob
\* or write_blob has started, and afterwards is the sum of all byte counts the
\* callback was called with, with several transfer threads calling at once.
C37_ProgressIsSumOfReports ==
    entry = "transfers" =>
        \A c \in CallIds :
            (xfer.call[c].op # "none" /\ xfer.call[c].pc # "start" /\ AloneOnCounter(c))
                => xfer.progress[counter_of(xfer.call[c].op)] = xfer.call[c].reported

\* C37 witness: a read_blob on a store whose counter an earlier transfer left
\* at 5 has returned, both its transfer threads have reported, 1 byte and
\* 2 bytes, and the counter is 3
C37_Witness ==
    /\ entry = "transfers"
    /\ xfer.call[1].op = "read_blob" /\ xfer.call[1].pc = "done"
    /\ xfer.call[2].op = "write_blob"
    /\ xfer.thread[<<1, 1>>].reports = 1
    /\ xfer.thread[<<1, 2>>].reports = 1
    /\ xfer.call[1].reported = 3
    /\ xfer.progress["read"] = 3
    /\ xfer.progress["write"] = LeftOver

\* C39: wait_for_job_completion returns the status response only when the
\* reply is COMPLETED; a FAILED or unknown status ends the call with
\* RuntimeError; the loop sleeps and goes on only after RUNNING or after an
\* APIError that arrived before the deadline; a call that is over polls no more.
C39_OutcomesOfAPoll ==
    [][/\ (entry = "poll" /\ poll.pc = "request" /\ poll' # poll) =>
            LET r == poll'.reply
            IN /\ poll'.attempts = poll.attempts + 1
               /\ (poll'.outcome = "returned") <=> (r = "COMPLETED")
               /\ r \in {"FAILED", "OTHER"} =>
                     (poll'.pc = "done" /\ poll'.outcome = "RuntimeError")
               /\ (poll'.pc = "loop") <=>
                     \/ r = "RUNNING"
                     \/ r = "APIError" /\ poll'.outcome = "none"
               /\ (poll'.pc = "loop") =>
                     /\ poll'.outcome = "none"
                     /\ poll'.elapsed >= poll.elapsed + poll.interval
                     /\ r = "APIError" => poll'.elapsed - poll.interval <= poll.timeout
               /\ (r = "APIError" /\ poll'.pc = "done") =>
                     (poll'.outcome = "APIError" /\ poll'.elapsed > poll.timeout)
       /\ (entry = "poll" /\ poll.pc = "loop" /\ poll' # poll) =>
            (poll'.attempts = poll.attempts /\ poll'.outcome \in {"none", "TimeoutError"})
       /\ (entry = "poll" /\ poll.pc = "done") => poll' = poll]_vars

\* C39 witness: the third status request was answered FAILED, after two
\* requests that the loop slept on, and the call ended with RuntimeError
C39_Witness ==
    /\ entry = "poll" /\ poll.pc = "done"
    /\ poll.attempts = 3
    /\ poll.reply = "FAILED"
    /\ poll.outcome = "RuntimeError"

\* C40: wait_for_job_completion terminates: with a clock that every sleep
\* advances, the call returns or raises after finitely many status requests,
\* whatever RUNNING statuses and request errors it meets.
C40_Terminates ==
    (entry = "poll") ~> (poll.pc = "done" /\ poll.outcome # "none")

\* C40 witness: the call is over by TimeoutError after three status requests,
\* the last of which failed
C40_Witness ==
    /\ entry = "poll" /\ poll.pc = "done"
    /\ poll.outcome = "TimeoutError"
    /\ poll.attempts = 3
    /\ poll.reply = "APIError"

====
